---- MODULE Spec2Model ----
(***************************************************************************)
(* RegCost: in-force reconstruction, exclusion filter and requirement      *)
(* counters of the Australian regulation-stock pipeline, as state          *)
(* machines.  Several specifications share the module:                         *)
(*   SpecDates  fetch_all_titles + is_in_force_at (date resolution)        *)
(*   SpecCount  the BC and RegData counters applied to one text            *)
(*   SpecExcl   the exclusion filter and the subtype tags of one title     *)
(*   SpecAgg    the three aggregation pipelines, document by document      *)
(*   SpecClass  the type, subtype and industry classifiers, call by call   *)
(*   SpecBatch  whole runs of the batch loops over a document list         *)
(*   SpecYear   the year-extraction functions applied to one register id   *)
(*   SpecRows   generate_time_series_rows over a list of base rows          *)
(*   SpecUpdate the scheduled API update, run after run                     *)
(*   SpecDiff   count_bc and count_regdata side by side, text by text       *)
(*   SpecTwin   the counter classes next to the script functions            *)
(*   SpecPaging the paging loop of the API fetch functions                  *)
(***************************************************************************)
EXTENDS Integers, Sequences, FiniteSets, TLC

VARIABLES
    item,        \* the API record fetch_all_titles is looking at
    doc,         \* the document fetch_all_titles appended for it (time_series_analysis)
    docSplit,    \* the document time_series_split_analysis appended for it
    check_date,  \* the reference date of the last is_in_force_at call
    verdict,     \* what the two is_in_force_at functions returned
    phase,       \* position of the driver: "new" | "fetched" | "checked"
    text,        \* the text handed to the requirement counters
    counts,      \* what each counter returned for it (Unset: not called yet)
    subject,     \* the document handed to the exclusion filter
    filter,      \* what the filter's predicates returned for it
    pipeline,    \* the aggregation script that is running
    ref,         \* its reference date (1 July of the reference year)
    ndocs,       \* documents its loop has gone through
    last,        \* the last of them, and whether it entered the aggregate
    stats,       \* the aggregate for the reference date, per group
    classifier,  \* the IndustryClassifier object: its compiled keyword tables
    call,        \* the last classification call: function, arguments, result
    kept,        \* an earlier call that is kept to compare a repeat with
    documents,   \* the document list a batch script has loaded
    job,         \* the script that runs over it and its parameters
    input,       \* the list its loop went through in the last run
    results,     \* what the last run returned
    baseline,    \* what the first run returned
    idGiven,     \* the register id handed to the year-extraction functions
    yearOf,      \* what each of them returned for it (Unset: not called yet)
    base_rows,   \* the base rows handed to generate_time_series_rows
    span,        \* its start_year and end_year
    time_series_rows, \* what it returned, and the base rows after the call
    marker,      \* the completion marker file of scheduled_api_update
    upd,         \* the run of its main() in progress: position, effects so far, exit code
    nruns,       \* scheduled runs started so far
    clean,       \* some run went through every step with no exception raised
    server,      \* the titles the API holds, and the fetch function that pages through them
    paging,      \* the paging loop: skip, all_items, failed attempts, position
    included_docs,  \* analysis_mandala_aligned.main: the documents still to count
    processed,   \* the per-document counts appended so far
    period_stats, \* the totals of a period by legislation type, << >> before aggregation
    twin_text,   \* the text handed to a counter class and to the script function of the same method
    twin         \* what each of the four returned for it, and the counts of the text before its blank was replaced

dateVars == <<item, doc, docSplit, check_date, verdict, phase>>
countVars == <<text, counts>>
exclVars == <<subject, filter>>
aggVars == <<pipeline, ref, ndocs, last, stats>>
classVars == <<classifier, call, kept>>
batchVars == <<documents, job, input, results, baseline>>
yearVars == <<idGiven, yearOf>>
rowsVars == <<base_rows, span, time_series_rows>>
updateVars == <<marker, upd, nruns, clean>>
pagingVars == <<server, paging>>
diffVars == <<included_docs, processed, period_stats>>
twinVars == <<twin_text, twin>>
\* the variables of the machines added after SpecBatch
extraVars == <<yearVars, rowsVars, updateVars, pagingVars, diffVars, twinVars>>
vars == <<item, doc, docSplit, check_date, verdict, phase, text, counts, subject, filter,
          pipeline, ref, ndocs, last, stats, classifier, call, kept,
          documents, job, input, results, baseline, idGiven, yearOf,
          base_rows, span, time_series_rows,
          marker, upd, nruns, clean,
          server, paging,
          included_docs, processed, period_stats,
          twin_text, twin>>

\* a result not computed yet
Unset == 0 - 1

(***************************************************************************)
(* Bounds                                                                  *)
(***************************************************************************)
YearMin == 2000
YearMax == 2001
MaxHistory == 2
MaxTextLen == 5
MaxTitleParts == 2
MaxDocs == 2
MaxSubtypeParts == 2
MaxTitleWords == 2
\* the text windows text[:3000] and text[:5000], counted in atoms
WindowAtoms == 3
PrimaryWindowAtoms == 5
MaxBatch == 2

Years == YearMin..YearMax

(***************************************************************************)
(* Characters and strings.  A Python str is a sequence of 1-character      *)
(* strings; str.lower, the in operator and startswith work on those.       *)
(***************************************************************************)
UpperChars == <<"A","B","C","D","E","F","G","H","I","J","K","L","M",
                "N","O","P","Q","R","S","T","U","V","W","X","Y","Z">>
LowerChars == <<"a","b","c","d","e","f","g","h","i","j","k","l","m",
                "n","o","p","q","r","s","t","u","v","w","x","y","z">>
DigitChars == <<"0","1","2","3","4","5","6","7","8","9">>

LowerChar(c) ==
    IF \E i \in 1..26 : UpperChars[i] = c
    THEN LowerChars[CHOOSE i \in 1..26 : UpperChars[i] = c]
    ELSE c

\* str.lower()
Lower(s) == [i \in 1..Len(s) |-> LowerChar(s[i])]

IsDigit(c) == \E i \in 1..10 : DigitChars[i] = c
DigitVal(c) == (CHOOSE i \in 1..10 : DigitChars[i] = c) - 1
DigitOf(n) == DigitChars[n + 1]

\* the 4-digit spelling of a year, as it stands in a register id
YearChars(y) ==
    << DigitOf(y \div 1000), DigitOf((y \div 100) % 10),
       DigitOf((y \div 10) % 10), DigitOf(y % 10) >>

\* s[i..i+Len(p)-1] = p
MatchAt(s, p, i) ==
    /\ i >= 1
    /\ i + Len(p) - 1 <= Len(s)
    /\ \A k \in 1..Len(p) : s[i + k - 1] = p[k]

\* p in s
Contains(s, p) == \E i \in 1..(Len(s) + 1) : MatchAt(s, p, i)

\* s.startswith(p)
StartsWith(s, p) == MatchAt(s, p, 1)

(***************************************************************************)
(* Dates.  A datetime.date is <<year, month, day>>; None is NoDate.        *)
(* A date string is a record: fmt "none" is None, "empty" is '', "bad" a   *)
(* non-empty string no format parses, "date" is YYYY-MM-DD and "datetime"  *)
(* is YYYY-MM-DDT00:00:00.                                                 *)
(***************************************************************************)
NoDate == << >>

Dates == { <<y, m, 1>> : y \in Years, m \in {1, 7} }

DateLE(a, b) ==
    \/ a[1] < b[1]
    \/ a[1] = b[1] /\ a[2] < b[2]
    \/ a[1] = b[1] /\ a[2] = b[2] /\ a[3] <= b[3]

DateLT(a, b) == DateLE(a, b) /\ a # b

NoneStr  == [fmt |-> "none",  y |-> 0, m |-> 0, d |-> 0]
EmptyStr == [fmt |-> "empty", y |-> 0, m |-> 0, d |-> 0]
BadStr   == [fmt |-> "bad",   y |-> 0, m |-> 0, d |-> 0]

\* the string the register returns for a date: plain for 1 January,
\* with a time part for other days
StrOfDate(dt) ==
    [fmt |-> IF dt[2] = 1 THEN "date" ELSE "datetime",
     y |-> dt[1], m |-> dt[2], d |-> dt[3]]

DateStrs == {NoneStr, EmptyStr, BadStr} \cup { StrOfDate(dt) : dt \in Dates }

\* `not s` for a str-or-None
Falsy(s) == s.fmt \in {"none", "empty"}

(***************************************************************************)
(* Register ids and the year regex  [CF](\d{4})                            *)
(***************************************************************************)
\* the pattern matches at position i: a C or F and four digits after it
YearMatchAt(id, i) ==
    /\ i + 4 <= Len(id)
    /\ id[i] \in {"C", "F"}
    /\ \A k \in 1..4 : IsDigit(id[i + k])

\* re.search: is there a match at all
HasYearMatch(id) == \E i \in 1..Len(id) : YearMatchAt(id, i)

\* int(match.group(1)) of the leftmost match
MatchedYear(id) ==
    LET i == CHOOSE j \in 1..Len(id) :
                 YearMatchAt(id, j) /\ \A k \in 1..(j - 1) : ~YearMatchAt(id, k)
    IN  DigitVal(id[i + 1]) * 1000 + DigitVal(id[i + 2]) * 100
          + DigitVal(id[i + 3]) * 10 + DigitVal(id[i + 4])

\* ids of the register: Acts C<year>A.., instruments F<year>L.., and ids
\* the pattern does not match (no C/F, fewer than four digits, lower case)
RegisterIds ==
    { <<"C">> \o YearChars(y) \o <<"A", "0", "3">> : y \in Years }
      \cup { <<"F">> \o YearChars(YearMax) \o <<"L", "9">>,
             <<"X", "9", "9">>,
             <<"C", "2", "0", "0", "A", "1">> }

(***************************************************************************)
(* parse_date                                                              *)
(***************************************************************************)
\* time_series_analysis.parse_date: None for None/'' and for whatever
\* fromisoformat / strptime reject, the date otherwise
parse_date(s) ==
    IF Falsy(s) THEN NoDate
    ELSE IF s.fmt = "datetime" THEN <<s.y, s.m, s.d>>
    ELSE IF s.fmt = "date" THEN <<s.y, s.m, s.d>>
    ELSE NoDate

(***************************************************************************)
(* The records of the Titles API                                           *)
(***************************************************************************)
\* '' and None are alike to every test of a start, so entries carry None only
StatusEntries ==
    [status : {"InForce", "Repealed"}, start : DateStrs \ {EmptyStr}]
      \cup [status : {"Ceased"}, start : {NoneStr}]

Histories == UNION { [1..n -> StatusEntries] : n \in 0..MaxHistory }

\* year: 0 stands for a missing year (None and 0 are both falsy)
\* Amending titles (isPrincipal false) are skipped whatever they hold: one stands for all.
Items ==
    [id : RegisterIds, statusHistory : Histories, makingDate : DateStrs,
     year : {0} \cup Years, isInForce : BOOLEAN, isPrincipal : {TRUE}]
      \cup [id : {<<"X", "9", "9">>}, statusHistory : {<< >>}, makingDate : {NoneStr},
            year : {0}, isInForce : {FALSE}, isPrincipal : {FALSE}]

(***************************************************************************)
(* fetch_all_titles: the body of `for item in items`                       *)
(***************************************************************************)
\* the loop over statusHistory: the start of the last InForce entry
RECURSIVE HistoryStart(_, _, _)
HistoryStart(h, status, acc) ==
    IF h = << >> THEN acc
    ELSE HistoryStart(Tail(h), status,
                      IF Head(h).status = status THEN Head(h).start ELSE acc)

\* commencement_date as appended: the InForce start, else makingDate
FetchedCommencement(it) ==
    LET c == HistoryStart(it.statusHistory, "InForce", NoneStr)
    IN  IF Falsy(c) THEN it.makingDate ELSE c

FetchedRepeal(it) == HistoryStart(it.statusHistory, "Repealed", NoneStr)

\* time_series_analysis.fetch_all_titles: the dict appended for an item
FetchedDoc(it) ==
    [register_id |-> it.id,
     making_date |-> it.makingDate,
     commencement_date |-> FetchedCommencement(it),
     repeal_date |-> FetchedRepeal(it),
     is_in_force |-> it.isInForce,
     year |-> it.year]

\* time_series_split_analysis.fetch_all_titles: no making_date, no year
FetchedDocSplit(it) ==
    [register_id |-> it.id,
     commencement_date |-> FetchedCommencement(it),
     repeal_date |-> FetchedRepeal(it),
     is_in_force |-> it.isInForce]

(***************************************************************************)
(* is_in_force_at                                                          *)
(***************************************************************************)
\* variant: the chain without the year field of the record
ResolveCommencement_no_year_field(d) ==
    LET commencement == parse_date(d.commencement_date)
        making == parse_date(d.making_date)
    IN  IF commencement # NoDate THEN commencement
        ELSE IF making # NoDate THEN making
        ELSE IF HasYearMatch(d.register_id)
             THEN <<MatchedYear(d.register_id), 1, 1>>
        ELSE NoDate

\* time_series_analysis.is_in_force_at, lines 138-158: the commencement
\* the test uses, NoDate where the function returns False at line 158
ResolveCommencement(d) ==
    LET commencement == parse_date(d.commencement_date)
        making == parse_date(d.making_date)
    IN  IF commencement # NoDate THEN commencement
        ELSE IF making # NoDate THEN making
        ELSE IF d.year # 0 THEN <<d.year, 1, 1>>
        ELSE IF HasYearMatch(d.register_id)
             THEN <<MatchedYear(d.register_id), 1, 1>>
        ELSE NoDate

\* variant: a document is still in force on the day it is repealed
is_in_force_at_repeal_day(d, cd) ==
    LET commencement == ResolveCommencement(d)
        repeal == parse_date(d.repeal_date)
    IN  IF commencement = NoDate THEN FALSE
        ELSE IF DateLT(cd, commencement) THEN FALSE
        ELSE IF repeal # NoDate /\ DateLT(repeal, cd) THEN FALSE
        ELSE TRUE

\* variant: a document flagged not in force is taken as repealed
is_in_force_at_flag(d, cd) ==
    LET commencement == ResolveCommencement(d)
        repeal == parse_date(d.repeal_date)
    IN  IF ~d.is_in_force THEN FALSE
        ELSE IF commencement = NoDate THEN FALSE
        ELSE IF DateLT(cd, commencement) THEN FALSE
        ELSE IF repeal # NoDate /\ DateLE(repeal, cd) THEN FALSE
        ELSE TRUE

\* time_series_analysis.is_in_force_at
is_in_force_at(d, cd) ==
    LET commencement == ResolveCommencement(d)
        repeal == parse_date(d.repeal_date)
    IN  IF commencement = NoDate THEN FALSE
        ELSE IF DateLT(cd, commencement) THEN FALSE
        ELSE IF repeal # NoDate /\ DateLE(repeal, cd) THEN FALSE
        ELSE TRUE

\* time_series_split_analysis.is_in_force_at, lines 116-125
ResolveCommencementSplit(d) ==
    LET commencement == parse_date(d.commencement_date)
    IN  IF commencement # NoDate THEN commencement
        ELSE IF HasYearMatch(d.register_id)
             THEN <<MatchedYear(d.register_id), 1, 1>>
        ELSE NoDate

\* time_series_split_analysis.is_in_force_at
is_in_force_at_split(d, cd) ==
    LET commencement == ResolveCommencementSplit(d)
        repeal == parse_date(d.repeal_date)
    IN  IF commencement = NoDate THEN FALSE
        ELSE IF DateLT(cd, commencement) THEN FALSE
        ELSE IF repeal # NoDate /\ DateLE(repeal, cd) THEN FALSE
        ELSE TRUE

(***************************************************************************)
(* The making-year proxies of the other pipelines                          *)
(***************************************************************************)
\* extract_year / extract_year_from_id: 0 stands for None (both are falsy)
extract_year(id) == IF HasYearMatch(id) THEN MatchedYear(id) ELSE 0

\* variant: without the `if not year: continue` skip
mandala_in_force_no_skip(id, cutoff_year) ==
    extract_year(id) <= cutoff_year

\* analysis_mandala_aligned.main: the document is processed (`if not year:
\* continue`) and passes `d['year'] <= cutoff_year`
mandala_in_force(id, cutoff_year) ==
    LET year == extract_year(id)
    IN  IF year = 0 THEN FALSE ELSE year <= cutoff_year

\* anzsic_primary_industry.filter_in_force: the document is appended
filter_in_force_keeps(id, cd) ==
    LET year == extract_year(id)
    IN  IF year = 0 THEN FALSE ELSE year <= cd[1]

(***************************************************************************)
(* SpecDates: one API record is fetched, then tested at reference dates    *)
(***************************************************************************)
\* the variables of the date machine while another machine runs
IdleDates ==
    /\ item = << >>
    /\ doc = << >>
    /\ docSplit = << >>
    /\ check_date = << >>
    /\ verdict = << >>
    /\ phase = "idle"

IdleCount ==
    /\ text = << >>
    /\ counts = << >>

IdleExcl ==
    /\ subject = << >>
    /\ filter = << >>

IdleAgg ==
    /\ pipeline = "idle"
    /\ ref = << >>
    /\ ndocs = 0
    /\ last = << >>
    /\ stats = << >>

IdleClass ==
    /\ classifier = << >>
    /\ call = << >>
    /\ kept = << >>

IdleBatch ==
    /\ documents = << >>
    /\ job = << >>
    /\ input = << >>
    /\ results = << >>
    /\ baseline = << >>

IdleYear ==
    /\ idGiven = << >>
    /\ yearOf = << >>

IdleRows ==
    /\ base_rows = << >>
    /\ span = << >>
    /\ time_series_rows = << >>

IdleUpdate ==
    /\ marker = << >>
    /\ upd = << >>
    /\ nruns = << >>
    /\ clean = << >>

IdlePaging ==
    /\ server = << >>
    /\ paging = << >>

IdleDiff ==
    /\ included_docs = << >>
    /\ processed = << >>
    /\ period_stats = << >>

IdleTwin ==
    /\ twin_text = << >>
    /\ twin = << >>

IdleExtra ==
    /\ IdleYear
    /\ IdleRows
    /\ IdleUpdate
    /\ IdlePaging
    /\ IdleDiff
    /\ IdleTwin

InitDates ==
    /\ IdleExtra
    /\ IdleCount
    /\ IdleExcl
    /\ IdleAgg
    /\ IdleClass
    /\ IdleBatch
    /\ item \in Items
    /\ doc = << >>
    /\ docSplit = << >>
    /\ check_date = <<YearMin, 1, 1>>
    /\ verdict = [tsa |-> FALSE, split |-> FALSE, mandala |-> FALSE, primary |-> FALSE]
    /\ phase = "new"

\* one pass of `for item in items`: non-principal titles are skipped
FetchItem ==
    /\ phase = "new"
    /\ doc' = IF item.isPrincipal THEN <<FetchedDoc(item)>> ELSE << >>
    /\ docSplit' = IF item.isPrincipal THEN <<FetchedDocSplit(item)>> ELSE << >>
    /\ phase' = "fetched"
    /\ UNCHANGED <<item, check_date, verdict>>
    /\ UNCHANGED <<countVars, exclVars, aggVars, classVars, batchVars, extraVars>>

\* one time point: each pipeline's in-force test of the document
\* (run_time_series_analysis, the split analysis, mandala main,
\* filter_in_force); the tests of two time points share nothing, so a
\* behaviour follows one
CheckInForce ==
    /\ phase = "fetched"
    /\ doc # << >>
    /\ \E cd \in Dates :
         /\ check_date' = cd
         /\ verdict' = [tsa |-> is_in_force_at(doc[1], cd),
                        split |-> is_in_force_at_split(docSplit[1], cd),
                        mandala |-> mandala_in_force(doc[1].register_id, cd[1]),
                        primary |-> filter_in_force_keeps(doc[1].register_id, cd)]
    /\ phase' = "checked"
    /\ UNCHANGED <<item, doc, docSplit>>
    /\ UNCHANGED <<countVars, exclVars, aggVars, classVars, batchVars, extraVars>>

NextDates == FetchItem \/ CheckInForce

SpecDates == InitDates /\ [][NextDates]_vars

(***************************************************************************)
(* Texts.  A text is a sequence of atoms: words (runs of \w characters),   *)
(* whitespace characters and punctuation.  Adjacent word atoms spell one   *)
(* longer word ("must","may" is "mustmay"), so \b holds at the edge of a   *)
(* word atom only when its neighbour is not a word atom.  No two word      *)
(* atoms of the alphabet, and no placeholder, concatenate to a counted     *)
(* term.  'may' and 'not' on their own are the words no counter counts.    *)
(***************************************************************************)
SpaceAtoms == {" ", "\n"}
PunctAtoms == {"."}
WordAtoms == {"Must", "shall", "required", "prohibited", "may", "not"}
Atoms == WordAtoms \cup SpaceAtoms \cup PunctAtoms

IsSpace(a) == a \in SpaceAtoms
IsWord(a) == a \notin SpaceAtoms \cup PunctAtoms

Texts == UNION { [1..n -> Atoms] : n \in 0..MaxTextLen }

\* str.lower() of a text
LowerAtom(a) ==
    CASE a = "Must" -> "must"
      [] a = "Police" -> "police"
      [] a = "GST" -> "gst"
      [] OTHER -> a
LowerText(t) == [i \in 1..Len(t) |-> LowerAtom(t[i])]

\* \b before atom i / after atom i (atom i a word atom)
BoundaryBefore(t, i) == i = 1 \/ ~IsWord(t[i - 1])
BoundaryAfter(t, i) == i = Len(t) \/ ~IsWord(t[i + 1])

\* \bword\b matches at atom i
WordAt(t, word, i) ==
    /\ t[i] = word
    /\ BoundaryBefore(t, i)
    /\ BoundaryAfter(t, i)

\* len(re.findall(r'\bword\b', t))
CountWord(t, word) == Cardinality({ i \in 1..Len(t) : WordAt(t, word, i) })

\* the atom after the whitespace run that starts at i (Len(t)+1: none)
RECURSIVE SkipSpaces(_, _)
SkipSpaces(t, i) ==
    IF i <= Len(t) /\ IsSpace(t[i]) THEN SkipSpaces(t, i + 1) ELSE i

\* \bfirst\s+second\b matches from atom i: the index of its last atom, 0 if none
SpacedPairEnd(t, first, second, i) ==
    LET j == SkipSpaces(t, i + 1)
    IN  IF /\ t[i] = first
           /\ BoundaryBefore(t, i)
           /\ j > i + 1
           /\ j <= Len(t)
           /\ t[j] = second
           /\ BoundaryAfter(t, j)
        THEN j ELSE 0

\* \bfirst second\b (one literal blank) matches from atom i: its last atom, 0 if none
LiteralPairEnd(t, first, second, i) ==
    IF /\ i + 2 <= Len(t)
       /\ t[i] = first
       /\ BoundaryBefore(t, i)
       /\ t[i + 1] = " "
       /\ t[i + 2] = second
       /\ BoundaryAfter(t, i + 2)
    THEN i + 2 ELSE 0

PairEnd(t, first, second, spaced, i) ==
    IF spaced THEN SpacedPairEnd(t, first, second, i)
    ELSE LiteralPairEnd(t, first, second, i)

\* len(re.findall(pattern, t)) for a two-word pattern
CountPair(t, first, second, spaced) ==
    Cardinality({ i \in 1..Len(t) : PairEnd(t, first, second, spaced, i) # 0 })

\* re.sub(pattern, placeholder, t) for a two-word pattern: left to right,
\* each match replaced by the placeholder (one word atom)
RECURSIVE SubPair(_, _, _, _, _, _)
SubPair(t, first, second, spaced, placeholder, i) ==
    IF i > Len(t) THEN << >>
    ELSE LET e == PairEnd(t, first, second, spaced, i)
         IN  IF e # 0
             THEN <<placeholder>> \o SubPair(t, first, second, spaced, placeholder, e + 1)
             ELSE <<t[i]>> \o SubPair(t, first, second, spaced, placeholder, i + 1)

\* \bfirst\s+second\s+third\b matches from atom i: its last atom, 0 if none
TripleEnd(t, first, second, third, i) ==
    LET j == SkipSpaces(t, i + 1)
        k == SkipSpaces(t, j + 1)
    IN  IF /\ t[i] = first
           /\ BoundaryBefore(t, i)
           /\ j > i + 1
           /\ j <= Len(t)
           /\ t[j] = second
           /\ k > j + 1
           /\ k <= Len(t)
           /\ t[k] = third
           /\ BoundaryAfter(t, k)
        THEN k ELSE 0

\* re.sub(pattern, placeholder, t) for a three-word pattern
RECURSIVE SubTriple(_, _, _, _, _, _)
SubTriple(t, first, second, third, placeholder, i) ==
    IF i > Len(t) THEN << >>
    ELSE LET e == TripleEnd(t, first, second, third, i)
         IN  IF e # 0
             THEN <<placeholder>> \o SubTriple(t, first, second, third, placeholder, e + 1)
             ELSE <<t[i]>> \o SubTriple(t, first, second, third, placeholder, i + 1)

\* re.sub(r'\s+', ' ', t)
RECURSIVE NormalizeSpaces(_, _)
NormalizeSpaces(t, i) ==
    IF i > Len(t) THEN << >>
    ELSE IF IsSpace(t[i]) THEN <<" ">> \o NormalizeSpaces(t, SkipSpaces(t, i))
    ELSE <<t[i]>> \o NormalizeSpaces(t, i + 1)

RECURSIVE SumOver(_, _)
SumOver(f, keys) ==
    IF keys = {} THEN 0
    ELSE LET k == CHOOSE x \in keys : TRUE
         IN  f[k] + SumOver(f, keys \ {k})

(***************************************************************************)
(* BC counters                                                             *)
(***************************************************************************)
BC_BINDING_WORDS == {"must", "shall", "required"}

\* variant: 'shall not' is left unmasked
count_bc_shall_not_unmasked(t) ==
    IF t = << >> THEN 0
    ELSE LET text_lower == LowerText(t)
             masked1 == SubPair(text_lower, "must", "not", TRUE, "__NEG__", 1)
         IN  CountWord(masked1, "must") + CountWord(masked1, "shall")
               + CountWord(masked1, "required")

\* generate_webapp_data.count_bc (the same body in analysis_mandala_aligned
\* and time_series_split_simple): mask, then count
count_bc(t) ==
    IF t = << >> THEN 0
    ELSE LET text_lower == LowerText(t)
             masked1 == SubPair(text_lower, "must", "not", TRUE, "__NEG__", 1)
             masked2 == SubPair(masked1, "shall", "not", TRUE, "__NEG__", 1)
         IN  CountWord(masked2, "must") + CountWord(masked2, "shall")
               + CountWord(masked2, "required")

\* time_series_analysis.count_bc_requirements: BC_EXCLUSION_PATTERNS masked
\* with __EXCLUDED__, then BC_BINDING_WORDS counted
count_bc_requirements(t) ==
    IF t = << >> THEN 0
    ELSE LET text_lower == LowerText(t)
             masked1 == SubPair(text_lower, "must", "not", TRUE, "__EXCLUDED__", 1)
             masked2 == SubPair(masked1, "shall", "not", TRUE, "__EXCLUDED__", 1)
         IN  SumOver([w \in BC_BINDING_WORDS |-> CountWord(masked2, w)], BC_BINDING_WORDS)

\* anzsic_primary_industry.count_requirements, 'bc': count, then subtract
count_requirements_bc(t) ==
    IF t = << >> THEN 0
    ELSE LET text_lower == LowerText(t)
             bc_count == CountWord(text_lower, "must") + CountWord(text_lower, "shall")
                           + CountWord(text_lower, "required")
             negation_count == CountPair(text_lower, "must", "not", TRUE)
                                 + CountPair(text_lower, "shall", "not", TRUE)
         IN  IF bc_count - negation_count > 0 THEN bc_count - negation_count ELSE 0

(***************************************************************************)
(* RegData counters                                                        *)
(***************************************************************************)
REGDATA_SINGLE_WORDS == {"shall", "must", "required", "prohibited"}

\* variant: every 'may' counts, followed by 'not' or not
count_regdata_bare_may(t) ==
    IF t = << >> THEN 0
    ELSE LET text_lower == LowerText(t)
         IN  CountWord(text_lower, "may") + CountWord(text_lower, "shall")
               + CountWord(text_lower, "must") + CountWord(text_lower, "required")
               + CountWord(text_lower, "prohibited")

\* generate_webapp_data.count_regdata: 'may not' counted and masked, then the
\* single words
count_regdata(t) ==
    IF t = << >> THEN 0
    ELSE LET text_lower == LowerText(t)
             may_not == CountPair(text_lower, "may", "not", FALSE)
             masked == SubPair(text_lower, "may", "not", FALSE, "__X__", 1)
         IN  may_not + CountWord(masked, "shall") + CountWord(masked, "must")
               + CountWord(masked, "required") + CountWord(masked, "prohibited")

\* RegDataRestrictionsCounter._preprocess_text
regdata_preprocess(t) == NormalizeSpaces(LowerText(t), 1)

\* variant: the BC negation masks applied before the single words are counted
count_restrictions_by_word_negations_masked(t) ==
    IF t = << >> THEN [w \in {} |-> 0]
    ELSE LET processed_text == regdata_preprocess(t)
             masked0 == SubPair(processed_text, "may", "not", TRUE, "___COUNTED___", 1)
             masked1 == SubPair(masked0, "must", "not", TRUE, "___COUNTED___", 1)
             masked_text == SubPair(masked1, "shall", "not", TRUE, "___COUNTED___", 1)
         IN  [w \in {"may not"} \cup REGDATA_SINGLE_WORDS |->
                 IF w = "may not" THEN CountPair(processed_text, "may", "not", TRUE)
                 ELSE CountWord(masked_text, w)]

\* RegDataRestrictionsCounter.count_restrictions: 'by_word' (no key at all
\* for an empty text)
count_restrictions_by_word(t) ==
    IF t = << >> THEN [w \in {} |-> 0]
    ELSE LET processed_text == regdata_preprocess(t)
             masked_text == SubPair(processed_text, "may", "not", TRUE, "___COUNTED___", 1)
         IN  [w \in {"may not"} \cup REGDATA_SINGLE_WORDS |->
                 IF w = "may not" THEN CountPair(processed_text, "may", "not", TRUE)
                 ELSE CountWord(masked_text, w)]

\* RegDataRestrictionsCounter.count_restrictions: 'total'
count_restrictions_total(t) ==
    LET by_word == count_restrictions_by_word(t)
    IN  SumOver(by_word, DOMAIN by_word)

(***************************************************************************)
(* SpecCount: one text goes through the counters                           *)
(***************************************************************************)
InitCount ==
    /\ IdleExtra
    /\ IdleDates
    /\ IdleExcl
    /\ IdleAgg
    /\ IdleClass
    /\ IdleBatch
    /\ text \in Texts
    /\ counts = [bc_webapp |-> Unset, bc_tsa |-> Unset, bc_primary |-> Unset,
                 regdata_webapp |-> Unset, regdata_total |-> Unset,
                 regdata_by_word |-> << >>]

\* process_documents: bc = count_bc(text)
CountBC ==
    /\ counts.bc_webapp = Unset
    /\ counts' = [counts EXCEPT !.bc_webapp = count_bc(text)]
    /\ UNCHANGED text

\* run_time_series_analysis: bc_total += count_bc_requirements(text)
CountBCRequirements ==
    /\ counts.bc_webapp # Unset
    /\ counts.bc_tsa = Unset
    /\ counts' = [counts EXCEPT !.bc_tsa = count_bc_requirements(text)]
    /\ UNCHANGED text

\* run_analysis: requirements = count_requirements(text)
CountRequirements ==
    /\ counts.bc_tsa # Unset
    /\ counts.bc_primary = Unset
    /\ counts' = [counts EXCEPT !.bc_primary = count_requirements_bc(text)]
    /\ UNCHANGED text

\* process_documents: regdata = count_regdata(text)
CountRegData ==
    /\ counts.bc_primary # Unset
    /\ counts.regdata_webapp = Unset
    /\ counts' = [counts EXCEPT !.regdata_webapp = count_regdata(text)]
    /\ UNCHANGED text

\* analyze_regulation: counts = self.count_restrictions(text)
CountRestrictions ==
    /\ counts.regdata_webapp # Unset
    /\ counts.regdata_total = Unset
    /\ counts' = [counts EXCEPT !.regdata_total = count_restrictions_total(text),
                                !.regdata_by_word = count_restrictions_by_word(text)]
    /\ UNCHANGED text

NextCount ==
    \/ CountBC /\ UNCHANGED <<dateVars, exclVars, aggVars, classVars, batchVars, extraVars>>
    \/ CountBCRequirements /\ UNCHANGED <<dateVars, exclVars, aggVars, classVars, batchVars, extraVars>>
    \/ CountRequirements /\ UNCHANGED <<dateVars, exclVars, aggVars, classVars, batchVars, extraVars>>
    \/ CountRegData /\ UNCHANGED <<dateVars, exclVars, aggVars, classVars, batchVars, extraVars>>
    \/ CountRestrictions /\ UNCHANGED <<dateVars, exclVars, aggVars, classVars, batchVars, extraVars>>

SpecCount == InitCount /\ [][NextCount]_vars

(***************************************************************************)
(* Exclusion filter (analysis_mandala_aligned) and the aviation tags of    *)
(* get_subtype (generate_webapp_data)                                      *)
(***************************************************************************)
\* pieces titles are put together from: the prefixes and phrases of the
\* rules in some of their spellings, and two neutral pieces
TitleParts ==
    { <<"A","D","/">>,
      <<"A","d","/">>,
      <<"C","A","O"," ">>,
      <<"c","a","o"," ">>,
      <<"C","A","S","A"," ">>,
      <<"C","i","v","i","l"," ","A","v","i","a","t","i","o","n"," ","S","a","f","e","t","y">>,
      <<"C","i","v","i","l"," ","A","v","i","a","t","i","o","n">>,
      <<"A","v","i","a","t","i","o","n"," ","T","r","a","n","s","p","o","r","t"," ","S","e","c","u","r","i","t","y">>,
      <<"A","i","r","s","p","a","c","e">>,
      <<"A","i","r","c","r","a","f","t"," ","N","o","i","s","e">>,
      <<"A","i","r"," ","N","a","v","i","g","a","t","i","o","n">>,
      <<"A","i","r","w","o","r","t","h","i","n","e","s","s">>,
      <<"M","a","n","u","a","l"," ","o","f"," ","S","t","a","n","d","a","r","d","s"," ","P","a","r","t">>,
      <<"T","a","r","i","f","f"," ","C","o","n","c","e","s","s","i","o","n">>,
      <<"O","r","d","e","r"," ">>,
      <<"2","0","2","0","/","0","1">> }

RECURSIVE Concat(_)
Concat(parts) == IF parts = << >> THEN << >> ELSE Head(parts) \o Concat(Tail(parts))

Titles == { Concat(ps) : ps \in UNION { [1..n -> TitleParts] : n \in 0..MaxTitleParts } }

Collections == { <<"a","c","t">>, <<"A","c","t">>, <<"l","e","g","i","s","l","a","t","i","v","e","i","n","s","t","r","u","m","e","n","t">> }

\* the body of the k-th `if` of is_civil_aviation_exclusive (and of the
\* aviation part of get_subtype, which tests the same conditions)
AviationRule(k, title) ==
    LET title_lower == Lower(title)
    IN  CASE k = 1 -> Contains(title, <<"A","D","/">>) \/ StartsWith(title, <<"a","d","/">>)
          [] k = 2 -> Contains(title, <<"C","A","O"," ">>) \/ StartsWith(title, <<"c","a","o"," ">>)
          [] k = 3 -> \/ Contains(title_lower, <<"c","a","s","a"," ">>)
                      \/ Contains(title_lower, <<"c","i","v","i","l"," ","a","v","i","a","t","i","o","n"," ","s","a","f","e","t","y">>)
          [] k = 4 -> Contains(title_lower, <<"c","i","v","i","l"," ","a","v","i","a","t","i","o","n">>)
          [] k = 5 -> Contains(title_lower, <<"a","v","i","a","t","i","o","n"," ","t","r","a","n","s","p","o","r","t"," ","s","e","c","u","r","i","t","y">>)
          [] k = 6 -> Contains(title_lower, <<"a","i","r","s","p","a","c","e">>)
          [] k = 7 -> Contains(title_lower, <<"a","i","r","c","r","a","f","t"," ","n","o","i","s","e">>)
          [] k = 8 -> Contains(title_lower, <<"a","i","r"," ","n","a","v","i","g","a","t","i","o","n">>)
          [] k = 9 -> Contains(title_lower, <<"a","i","r","w","o","r","t","h","i","n","e","s","s">>)
          [] k = 10 -> Contains(title_lower, <<"m","a","n","u","a","l"," ","o","f"," ","s","t","a","n","d","a","r","d","s"," ","p","a","r","t">>)

\* the rules in the order the source tests them
AviationRuleOrder == <<1, 2, 3, 4, 5, 6, 7, 8, 9, 10>>

\* the if-cascade over the rules in `order`: the first rule that holds, 0 if none
RECURSIVE AviationCascade(_, _, _)
AviationCascade(title, order, k) ==
    IF k > Len(order) THEN 0
    ELSE IF AviationRule(order[k], title) THEN order[k]
    ELSE AviationCascade(title, order, k + 1)

is_civil_aviation_exclusive(d) == AviationCascade(d.title, AviationRuleOrder, 1) # 0

is_tariff_concession(d) == Contains(Lower(d.title), <<"t","a","r","i","f","f"," ","c","o","n","c","e","s","s","i","o","n">>)

\* variant: only what both predicates match is excluded
should_exclude_both(d) == is_civil_aviation_exclusive(d) /\ is_tariff_concession(d)

should_exclude(d) == is_civil_aviation_exclusive(d) \/ is_tariff_concession(d)

\* variant: the lower-case phrases are looked for in the title as it is
subtype_aviation_tag_case_sensitive(title, title_lower) ==
    IF Contains(title, <<"A","D","/">>) \/ StartsWith(title, <<"a","d","/">>) THEN 1
    ELSE IF Contains(title, <<"C","A","O"," ">>) \/ StartsWith(title, <<"c","a","o"," ">>) THEN 2
    ELSE IF \/ Contains(title, <<"c","a","s","a"," ">>)
            \/ Contains(title, <<"c","i","v","i","l"," ","a","v","i","a","t","i","o","n"," ","s","a","f","e","t","y">>) THEN 3
    ELSE IF Contains(title, <<"c","i","v","i","l"," ","a","v","i","a","t","i","o","n">>) THEN 4
    ELSE IF Contains(title, <<"a","v","i","a","t","i","o","n"," ","t","r","a","n","s","p","o","r","t"," ","s","e","c","u","r","i","t","y">>) THEN 5
    ELSE IF Contains(title, <<"a","i","r","s","p","a","c","e">>) THEN 6
    ELSE IF Contains(title, <<"a","i","r","c","r","a","f","t"," ","n","o","i","s","e">>) THEN 7
    ELSE IF Contains(title, <<"a","i","r"," ","n","a","v","i","g","a","t","i","o","n">>) THEN 8
    ELSE IF Contains(title, <<"a","i","r","w","o","r","t","h","i","n","e","s","s">>) THEN 9
    ELSE IF Contains(title, <<"m","a","n","u","a","l"," ","o","f"," ","s","t","a","n","d","a","r","d","s"," ","p","a","r","t">>) THEN 10
    ELSE 0

\* get_subtype, lines 128-148: the number of the 'Aviation - ...' label its
\* if-cascade returns (1 Airworthiness Directive .. 10 Manual of Standards),
\* 0 when the cascade goes on to the later rules
subtype_aviation_tag(title, title_lower) ==
    IF Contains(title, <<"A","D","/">>) \/ StartsWith(title, <<"a","d","/">>) THEN 1
    ELSE IF Contains(title, <<"C","A","O"," ">>) \/ StartsWith(title, <<"c","a","o"," ">>) THEN 2
    ELSE IF \/ Contains(title_lower, <<"c","a","s","a"," ">>)
            \/ Contains(title_lower, <<"c","i","v","i","l"," ","a","v","i","a","t","i","o","n"," ","s","a","f","e","t","y">>) THEN 3
    ELSE IF Contains(title_lower, <<"c","i","v","i","l"," ","a","v","i","a","t","i","o","n">>) THEN 4
    ELSE IF Contains(title_lower, <<"a","v","i","a","t","i","o","n"," ","t","r","a","n","s","p","o","r","t"," ","s","e","c","u","r","i","t","y">>) THEN 5
    ELSE IF Contains(title_lower, <<"a","i","r","s","p","a","c","e">>) THEN 6
    ELSE IF Contains(title_lower, <<"a","i","r","c","r","a","f","t"," ","n","o","i","s","e">>) THEN 7
    ELSE IF Contains(title_lower, <<"a","i","r"," ","n","a","v","i","g","a","t","i","o","n">>) THEN 8
    ELSE IF Contains(title_lower, <<"a","i","r","w","o","r","t","h","i","n","e","s","s">>) THEN 9
    ELSE IF Contains(title_lower, <<"m","a","n","u","a","l"," ","o","f"," ","s","t","a","n","d","a","r","d","s"," ","p","a","r","t">>) THEN 10
    ELSE 0

\* get_subtype, lines 125-152: the number of the aviation tag returned
\* (1 Airworthiness Directive .. 10 Manual of Standards), 11 for Tariff
\* Concession Order, 0 when the cascade goes on to the later rules
subtype_exclusion_tag(d) ==
    LET tag == subtype_aviation_tag(d.title, Lower(d.title))
    IN  IF tag # 0 THEN tag
        ELSE IF Contains(Lower(d.title), <<"t","a","r","i","f","f"," ","c","o","n","c","e","s","s","i","o","n">>) THEN 11
        ELSE 0

(***************************************************************************)
(* SpecExcl: one document goes through the filter and the tagger           *)
(***************************************************************************)
Subjects == [title : Titles, collection : Collections]

InitExcl ==
    /\ IdleExtra
    /\ IdleDates
    /\ IdleCount
    /\ IdleAgg
    /\ IdleClass
    /\ IdleBatch
    /\ subject \in Subjects
    /\ filter = [done |-> FALSE, aviation |-> FALSE, tariff |-> FALSE,
                 excluded |-> FALSE, tag |-> Unset]

\* main: should_exclude(d), and the two counts of exclusions by type
ShouldExclude ==
    /\ ~filter.done
    /\ filter' = [filter EXCEPT !.done = TRUE,
                                !.aviation = is_civil_aviation_exclusive(subject),
                                !.tariff = is_tariff_concession(subject),
                                !.excluded = should_exclude(subject)]
    /\ UNCHANGED subject

\* process_documents: subtype = get_subtype(doc)
GetSubtype ==
    /\ filter.tag = Unset
    /\ filter' = [filter EXCEPT !.tag = subtype_exclusion_tag(subject)]
    /\ UNCHANGED subject

NextExcl ==
    \/ ShouldExclude /\ UNCHANGED <<dateVars, countVars, aggVars, classVars, batchVars, extraVars>>
    \/ GetSubtype /\ UNCHANGED <<dateVars, countVars, aggVars, classVars, batchVars, extraVars>>

SpecExcl == InitExcl /\ [][NextExcl]_vars

(***************************************************************************)
(* Aggregation pipelines                                                   *)
(***************************************************************************)
\* time_series_analysis.count_regdata_restrictions
count_regdata_restrictions(t) ==
    IF t = << >> THEN 0
    ELSE LET text_lower == LowerText(t)
             matches == CountPair(text_lower, "may", "not", FALSE)
             masked == SubPair(text_lower, "may", "not", FALSE, "__COUNTED__", 1)
         IN  matches + SumOver([w \in REGDATA_SINGLE_WORDS |-> CountWord(masked, w)],
                               REGDATA_SINGLE_WORDS)

\* doc.get(key, ''): a record without the key gives the empty string
Get(d, key) == IF key \in DOMAIN d THEN d[key] ELSE << >>

\* s[a:b] of a Python str (0-based, b exclusive, clipped to the string)
Slice(s, a, b) ==
    IF a >= Len(s) \/ b <= a THEN << >>
    ELSE SubSeq(s, a + 1, IF b < Len(s) THEN b ELSE Len(s))

\* analysis_mandala_aligned.get_legislation_type
get_legislation_type(collection) ==
    IF Lower(collection) = <<"a","c","t">> THEN "primary" ELSE "secondary"

\* generate_webapp_data.get_type
get_type(d) ==
    IF Lower(Get(d, "collection")) = <<"a","c","t">> THEN "Primary" ELSE "Secondary"

\* time_series_split_simple.get_legislation_type
get_legislation_type_simple(register_id, collection) ==
    IF collection = <<"a","c","t">> THEN "primary" ELSE "secondary"

\* anzsic_split_analysis.get_legislation_type
get_legislation_type_split(register_id, collection) ==
    IF \/ collection = <<"a","c","t">>
       \/ /\ StartsWith(register_id, <<"C">>)
          /\ Contains(Slice(register_id, 5, 9), <<"A">>)
    THEN "primary" ELSE "secondary"

\* generate_webapp_data: `year < 2000` in process_documents, START_YEAR and
\* END_YEAR in main
WEBAPP_MIN_YEAR == 2000
START_YEAR == 2000
END_YEAR == 2025

Max(a, b) == IF a >= b THEN a ELSE b

\* process_documents: the row appended for a document, << >> when it is skipped
webapp_row(d) ==
    LET year == extract_year(d.register_id)
    IN  IF year = 0 \/ year < WEBAPP_MIN_YEAR THEN << >>
        ELSE << [making_year |-> year, register_id |-> d.register_id,
                 type |-> get_type(d), tag |-> subtype_exclusion_tag(d),
                 bc_requirements |-> count_bc(d.text),
                 regdata_requirements |-> count_regdata(d.text)] >>

\* generate_time_series_rows: the as_of_year values a base row is emitted for
time_series_years(row) == Max(row.making_year, START_YEAR)..END_YEAR

\* the documents the scripts read: an excluded and a kept title, an Act and
\* an instrument id and an id without a year, with or without a
\* commencement and a repeal date, with or without text
AggTitles == { <<"A","i","r","s","p","a","c","e">>, <<"T","a","r","i","f","f"," ","C","o","n","c","e","s","s","i","o","n">>, <<"O","r","d","e","r"," ">> }
AggIds == { <<"C">> \o YearChars(YearMin) \o <<"A", "0", "3">>,
            <<"F">> \o YearChars(YearMax) \o <<"L", "9">>,
            <<"X", "9", "9">> }
AggTexts == { << >>, <<"Must", " ", "not", ".", "shall">> }

CollectionOf(id) ==
    IF id # << >> /\ id[1] = "C" THEN <<"A","c","t">>
    ELSE <<"l","e","g","i","s","l","a","t","i","v","e","i","n","s","t","r","u","m","e","n","t">>

AggDocs ==
    { [register_id |-> id, title |-> t, collection |-> CollectionOf(id), text |-> x,
       making_date |-> NoneStr, commencement_date |-> c, repeal_date |-> r,
       is_in_force |-> TRUE, year |-> 0] :
        id \in AggIds, t \in AggTitles, x \in AggTexts,
        c \in {NoneStr, StrOfDate(<<YearMax, 1, 1>>)},
        r \in {NoneStr, StrOfDate(<<YearMax, 1, 1>>)} }

RefDates == { <<y, 7, 1>> : y \in Years }

ZeroStats == [count |-> 0, bc |-> 0, regdata |-> 0]

\* variant: the totals of a group are those of the last document added
AddTo_overwrite(st, group, bc, regdata) ==
    [st EXCEPT ![group] = [count |-> @.count + 1, bc |-> bc, regdata |-> regdata]]

AddTo(st, group, bc, regdata) ==
    [st EXCEPT ![group] = [count |-> @.count + 1, bc |-> @.bc + bc,
                           regdata |-> @.regdata + regdata]]

InitAgg ==
    /\ IdleExtra
    /\ IdleDates
    /\ IdleCount
    /\ IdleExcl
    /\ IdleClass
    /\ IdleBatch
    /\ pipeline \in {"mandala", "webapp", "tsa"}
    /\ ref \in RefDates
    /\ ndocs = 0
    /\ last = << >>
    /\ stats = IF pipeline = "mandala"
               THEN [g \in {"primary", "secondary"} |-> ZeroStats]
               ELSE IF pipeline = "webapp"
               THEN [g \in {"Primary", "Secondary"} |-> ZeroStats]
               ELSE [g \in {"all"} |-> ZeroStats]

\* analysis_mandala_aligned.main for one document and one cutoff year: the
\* exclusion filter, the year skip, `d['year'] <= cutoff_year`, the stats
MandalaDoc ==
    /\ pipeline = "mandala"
    /\ ndocs < MaxDocs
    /\ \E d \in AggDocs :
         LET counted == /\ ~should_exclude(d)
                        /\ mandala_in_force(d.register_id, ref[1])
         IN  /\ last' = <<[doc |-> d, contributed |-> counted]>>
             /\ stats' = IF counted
                         THEN AddTo(stats, get_legislation_type(d.collection),
                                    count_bc(d.text), count_regdata(d.text))
                         ELSE stats
    /\ ndocs' = ndocs + 1
    /\ UNCHANGED <<pipeline, ref>>

\* generate_webapp_data: process_documents and generate_time_series_rows for
\* one document; the aggregate of the reference year is its as_of_year rows
WebappDoc ==
    /\ pipeline = "webapp"
    /\ ndocs < MaxDocs
    /\ \E d \in AggDocs : \E row \in {webapp_row(d)} :
         LET counted == row # << >> /\ ref[1] \in time_series_years(row[1])
         IN  /\ last' = <<[doc |-> d, contributed |-> counted]>>
             /\ stats' = IF counted
                         THEN AddTo(stats, row[1].type, row[1].bc_requirements,
                                    row[1].regdata_requirements)
                         ELSE stats
    /\ ndocs' = ndocs + 1
    /\ UNCHANGED <<pipeline, ref>>

\* time_series_analysis.run_time_series_analysis for one document and one
\* time point: is_in_force_at, then the counts of documents that have text
TsaDoc ==
    /\ pipeline = "tsa"
    /\ ndocs < MaxDocs
    /\ \E d \in AggDocs :
         LET counted == is_in_force_at(d, ref)
         IN  /\ last' = <<[doc |-> d, contributed |-> counted]>>
             /\ stats' = IF counted
                         THEN AddTo(stats, "all",
                                    IF d.text # << >> THEN count_bc_requirements(d.text) ELSE 0,
                                    IF d.text # << >> THEN count_regdata_restrictions(d.text) ELSE 0)
                         ELSE stats
    /\ ndocs' = ndocs + 1
    /\ UNCHANGED <<pipeline, ref>>

NextAgg ==
    \/ MandalaDoc /\ UNCHANGED <<dateVars, countVars, exclVars, classVars, batchVars, extraVars>>
    \/ WebappDoc /\ UNCHANGED <<dateVars, countVars, exclVars, classVars, batchVars, extraVars>>
    \/ TsaDoc /\ UNCHANGED <<dateVars, countVars, exclVars, classVars, batchVars, extraVars>>

SpecAgg == InitAgg /\ [][NextAgg]_vars

(***************************************************************************)
(* Industry classifiers.  Titles and texts are atom sequences; besides the *)
(* counter words the alphabet has gas (divisions D and B), mine (B),       *)
(* Police (O), consumer (G and cross-cutting), GST and income tax          *)
(* (cross-cutting).  The keyword tables list the keywords this alphabet    *)
(* can spell, in the order of the source; no other keyword of the source   *)
(* tables can occur in such a text.                                        *)
(***************************************************************************)
\* the keys of ANZSIC_KEYWORDS / ANZSIC_DIVISIONS in declaration order
ANZSIC_ORDER ==
    << "O", "Q", "K", "D", "I", "J", "A", "B", "C", "P", "E", "R", "F", "G",
       "H", "L", "M", "N", "S" >>

ANZSIC_CODES == { ANZSIC_ORDER[i] : i \in 1..Len(ANZSIC_ORDER) }

\* ANZSIC_KEYWORDS[code] (the same lists are ANZSIC_DIVISIONS[code]['keywords'])
ANZSIC_KEYWORDS(code) ==
    CASE code = "O" -> << <<"police">> >>
      [] code = "D" -> << <<"gas">> >>
      [] code = "B" -> << <<"mine">>, <<"gas">> >>
      [] code = "G" -> << <<"consumer">> >>
      [] OTHER -> << >>

\* anzsic_primary_industry.ANZSIC_DIVISIONS[code]['title_patterns']
TITLE_PATTERNS(code) ==
    CASE code = "O" -> << <<"police">> >>
      [] code = "D" -> << <<"gas">> >>
      [] code = "G" -> << <<"consumer">> >>
      [] OTHER -> << >>

CROSS_CUTTING_KEYWORDS == << <<"consumer">>, <<"GST">>, <<"income", " ", "tax">> >>

\* IndustryClassifier.__init__ / PrimaryIndustryClassifier.__init__: one
\* alternation per division, compiled once
NewClassifier ==
    [ order |-> ANZSIC_ORDER,
      patterns |-> [code \in ANZSIC_CODES |-> ANZSIC_KEYWORDS(code)],
      title_patterns |-> [code \in ANZSIC_CODES |-> TITLE_PATTERNS(code)],
      cross_cutting |-> CROSS_CUTTING_KEYWORDS ]

\* \b<keyword>\b with re.IGNORECASE matches from atom i: its last atom, 0 if none
KeywordEnd(t, kw, i) ==
    LET e == i + Len(kw) - 1
    IN  IF /\ e <= Len(t)
           /\ \A k \in 1..Len(kw) : LowerAtom(t[i + k - 1]) = LowerAtom(kw[k])
           /\ BoundaryBefore(t, i)
           /\ BoundaryAfter(t, e)
        THEN e ELSE 0

\* \b(kw1|kw2|...)\b from atom i: the first alternative that matches
RECURSIVE AlternationEnd(_, _, _, _)
AlternationEnd(t, kws, i, k) ==
    IF k > Len(kws) THEN 0
    ELSE IF KeywordEnd(t, kws[k], i) # 0 THEN KeywordEnd(t, kws[k], i)
    ELSE AlternationEnd(t, kws, i, k + 1)

\* len(pattern.findall(t)): non-overlapping matches, left to right
RECURSIVE Findall(_, _, _)
Findall(t, kws, i) ==
    IF i > Len(t) THEN 0
    ELSE LET e == AlternationEnd(t, kws, i, 1)
         IN  IF e # 0 THEN 1 + Findall(t, kws, e + 1) ELSE Findall(t, kws, i + 1)

\* pattern.search(t)
Search(t, kws) == Findall(t, kws, 1) > 0

\* max() keeping the last of the keys that tie
RECURSIVE MaxKey_last_wins(_, _, _, _)
MaxKey_last_wins(order, scores, k, best) ==
    IF k > Len(order) THEN best
    ELSE IF order[k] \in DOMAIN scores
            /\ (best = "" \/ scores[order[k]] >= scores[best])
         THEN MaxKey_last_wins(order, scores, k + 1, order[k])
    ELSE MaxKey_last_wins(order, scores, k + 1, best)

\* max(scores, key=scores.get): the first key, in insertion order, whose
\* score no other key exceeds ("" stands for no key yet)
RECURSIVE MaxKey(_, _, _, _)
MaxKey(order, scores, k, best) ==
    IF k > Len(order) THEN best
    ELSE IF order[k] \in DOMAIN scores
            /\ (best = "" \/ scores[order[k]] > scores[best])
         THEN MaxKey(order, scores, k + 1, order[k])
    ELSE MaxKey(order, scores, k + 1, best)

\* the scores dict of a classifier: only the divisions that score above zero
PositiveScores(all) == [code \in { c \in DOMAIN all : all[c] > 0 } |-> all[code]]

\* classify testing the cross-cutting keywords before the divisions
classify_cross_cutting_first(c, title, body) ==
    LET window == Slice(body, 0, WindowAtoms)
        scores == PositiveScores(
                      [code \in DOMAIN c.patterns |->
                          Findall(title, c.patterns[code], 1) * 10
                            + Findall(window, c.patterns[code], 1)])
    IN  IF Search(title \o <<" ">> \o window, c.cross_cutting) THEN "X"
        ELSE IF DOMAIN scores # {} THEN MaxKey(c.order, scores, 1, "")
        ELSE "U"

\* generate_webapp_data.IndustryClassifier.classify (the same body in
\* analysis_mandala_aligned)
classify(c, title, body) ==
    LET window == Slice(body, 0, WindowAtoms)
        scores == PositiveScores(
                      [code \in DOMAIN c.patterns |->
                          Findall(title, c.patterns[code], 1) * 10
                            + Findall(window, c.patterns[code], 1)])
    IN  IF DOMAIN scores # {} THEN MaxKey(c.order, scores, 1, "")
        ELSE IF Search(title \o <<" ">> \o window, c.cross_cutting) THEN "X"
        ELSE "U"

\* x + y + ... over a sequence of numbers
RECURSIVE SumSeq(_)
SumSeq(ns) == IF ns = << >> THEN 0 ELSE Head(ns) + SumSeq(Tail(ns))

\* anzsic_primary_industry.PrimaryIndustryClassifier.classify_primary_industry:
\* 'all_scores'
primary_scores(c, d) ==
    LET title == Get(d, "title")
        body == Slice(Get(d, "text"), 0, PrimaryWindowAtoms)
    IN  PositiveScores(
            [code \in DOMAIN c.patterns |->
                SumSeq([k \in 1..Len(c.title_patterns[code]) |->
                           Findall(title, <<c.title_patterns[code][k]>>, 1) * 10])
                  + Findall(title \o <<" ">> \o body, c.patterns[code], 1)])

\* classify_primary_industry: 'primary_industry_code'
classify_primary_industry(c, d) ==
    LET title == Get(d, "title")
        body == Slice(Get(d, "text"), 0, PrimaryWindowAtoms)
        scores == primary_scores(c, d)
    IN  IF DOMAIN scores # {} THEN MaxKey(c.order, scores, 1, "")
        ELSE IF Search(title \o <<" ">> \o body, c.cross_cutting) THEN "X"
        ELSE "U"

\* the words of the titles the classifiers are given
TitleWords == {"gas", "Police", "mine", "consumer", "income", "tax", "GST"}

\* ' '.join(words)
RECURSIVE JoinWords(_)
JoinWords(ws) ==
    IF ws = << >> THEN << >>
    ELSE IF Len(ws) = 1 THEN ws
    ELSE <<Head(ws), " ">> \o JoinWords(Tail(ws))

IndustryTitles ==
    { JoinWords(ws) : ws \in UNION { [1..n -> TitleWords] : n \in 0..MaxTitleWords } }

\* the texts: inside the shorter window, reaching into the longer one,
\* a word cut by the shorter window ('gasmine'), and beyond both
IndustryTexts ==
    { << >>,
      <<"gas">>,
      <<"Police", " ", "Police">>,
      <<"tax">>,
      <<"GST">>,
      <<"consumer">>,
      <<"income", " ", "tax">>,
      <<"mine", " ", "gas">>,
      <<"x", " ", "x", " ", "mine">>,
      <<"x", " ", "gas", "mine">>,
      <<"x", " ", "x", " ", "x", " ", "x", " ", "gas">> }

IndustryDocs == { [title |-> t, text |-> x] : t \in IndustryTitles, x \in IndustryTexts }

(***************************************************************************)
(* SpecClass: documents go through the type, subtype and industry          *)
(* classifiers, one call after another                                     *)
(***************************************************************************)
\* the collection strings the scripts meet, in several letter cases
TypeCollections == Collections \cup { <<"A","C","T">>, << >> }

\* an Act id, an instrument id, and a compilation id whose characters 5..8
\* hold an 'A'
TypeIds == { <<"C">> \o YearChars(YearMin) \o <<"A", "0", "0", "1", "2", "3">>,
             <<"C">> \o YearChars(YearMin) \o <<"C", "0", "0", "1", "2", "3">>,
             <<"F">> \o YearChars(YearMax) \o <<"L", "0", "0", "0", "0", "9">> }

\* documents with and without a collection key
TypeDocs ==
    { [register_id |-> id, collection |-> c] : id \in TypeIds, c \in TypeCollections }
      \cup { [register_id |-> id] : id \in TypeIds }

\* str.endswith
EndsWith(s, p) == Len(p) <= Len(s) /\ SubSeq(s, Len(s) - Len(p) + 1, Len(s)) = p

\* the labels of the ten aviation branches of get_subtype, in source order
AviationLabels ==
    << "Aviation - Airworthiness Directive", "Aviation - Civil Aviation Order",
       "Aviation - CASA Instrument", "Aviation - Civil Aviation",
       "Aviation - Transport Security", "Aviation - Airspace",
       "Aviation - Aircraft Noise", "Aviation - Air Navigation",
       "Aviation - Airworthiness", "Aviation - Manual of Standards" >>

\* get_subtype, lines 171-198: the instrument sub-types, tested on title_lower
generic_subtype(title_lower) ==
    IF \/ Contains(title_lower, <<" ","r","e","g","u","l","a","t","i","o","n">>)
       \/ EndsWith(title_lower, <<" ","r","e","g","u","l","a","t","i","o","n","s">>) THEN "Regulation"
    ELSE IF Contains(title_lower, <<" ","d","e","t","e","r","m","i","n","a","t","i","o","n">>) THEN "Determination"
    ELSE IF Contains(title_lower, <<" ","o","r","d","e","r">>) THEN "Order"
    ELSE IF Contains(title_lower, <<" ","r","u","l","e","s">>) THEN "Rules"
    ELSE IF Contains(title_lower, <<" ","d","i","r","e","c","t","i","o","n">>) THEN "Direction"
    ELSE IF Contains(title_lower, <<" ","n","o","t","i","c","e">>) THEN "Notice"
    ELSE IF Contains(title_lower, <<" ","d","e","c","l","a","r","a","t","i","o","n">>) THEN "Declaration"
    ELSE IF \/ Contains(title_lower, <<" ","s","t","a","n","d","a","r","d">>)
            \/ Contains(title_lower, <<"a","c","c","o","u","n","t","i","n","g"," ","s","t","a","n","d","a","r","d">>) THEN "Standard"
    ELSE IF Contains(title_lower, <<"e","x","e","m","p","t","i","o","n">>) THEN "Exemption"
    ELSE IF Contains(title_lower, <<"a","p","p","r","o","v","a","l">>) THEN "Approval"
    ELSE IF Contains(title_lower, <<" ","i","n","s","t","r","u","m","e","n","t">>) THEN "Instrument"
    ELSE IF Contains(title_lower, <<"p","r","o","c","l","a","m","a","t","i","o","n">>) THEN "Proclamation"
    ELSE "Other Instrument"

\* variant: the Act test comes after the instrument sub-types
get_subtype_act_last(d) ==
    LET title == Get(d, "title")
        title_lower == Lower(title)
        tag == subtype_aviation_tag(title, title_lower)
    IN  IF tag # 0 THEN AviationLabels[tag]
        ELSE IF Contains(title_lower, <<"t","a","r","i","f","f"," ","c","o","n","c","e","s","s","i","o","n">>) THEN "Tariff Concession Order"
        ELSE IF Contains(title_lower, <<"s","t","a","t","e","m","e","n","t"," ","o","f"," ","p","r","i","n","c","i","p","l","e","s">>) THEN "Statement of Principles (RMA)"
        ELSE IF Contains(title_lower, <<"l","i","c","e","n","c","e"," ","a","r","e","a"," ","p","l","a","n">>) THEN "Licence Area Plan"
        ELSE IF Contains(title_lower, <<"n","a","t","i","v","e"," ","t","i","t","l","e">>) THEN "Native Title"
        ELSE IF /\ Contains(title_lower, <<"s","u","p","e","r","a","n","n","u","a","t","i","o","n">>)
                /\ Contains(title_lower, <<"f","a","m","i","l","y"," ","l","a","w">>) THEN "Superannuation Family Law"
        ELSE IF Contains(title_lower, <<"b","i","o","s","e","c","u","r","i","t","y">>) THEN "Biosecurity"
        ELSE IF Contains(title_lower, <<"t","h","e","r","a","p","e","u","t","i","c"," ","g","o","o","d","s">>) THEN "Therapeutic Goods"
        ELSE IF Contains(title_lower, <<"e","x","p","o","r","t"," ","c","o","n","t","r","o","l">>) THEN "Export Control"
        ELSE IF generic_subtype(title_lower) # "Other Instrument"
             THEN generic_subtype(title_lower)
        ELSE IF Lower(Get(d, "collection")) = <<"a","c","t">> THEN "Act"
        ELSE "Other Instrument"

\* generate_webapp_data.get_subtype
get_subtype(d) ==
    LET title == Get(d, "title")
        title_lower == Lower(title)
        tag == subtype_aviation_tag(title, title_lower)
    IN  IF tag # 0 THEN AviationLabels[tag]
        ELSE IF Contains(title_lower, <<"t","a","r","i","f","f"," ","c","o","n","c","e","s","s","i","o","n">>) THEN "Tariff Concession Order"
        ELSE IF Contains(title_lower, <<"s","t","a","t","e","m","e","n","t"," ","o","f"," ","p","r","i","n","c","i","p","l","e","s">>) THEN "Statement of Principles (RMA)"
        ELSE IF Contains(title_lower, <<"l","i","c","e","n","c","e"," ","a","r","e","a"," ","p","l","a","n">>) THEN "Licence Area Plan"
        ELSE IF Contains(title_lower, <<"n","a","t","i","v","e"," ","t","i","t","l","e">>) THEN "Native Title"
        ELSE IF /\ Contains(title_lower, <<"s","u","p","e","r","a","n","n","u","a","t","i","o","n">>)
                /\ Contains(title_lower, <<"f","a","m","i","l","y"," ","l","a","w">>) THEN "Superannuation Family Law"
        ELSE IF Contains(title_lower, <<"b","i","o","s","e","c","u","r","i","t","y">>) THEN "Biosecurity"
        ELSE IF Contains(title_lower, <<"t","h","e","r","a","p","e","u","t","i","c"," ","g","o","o","d","s">>) THEN "Therapeutic Goods"
        ELSE IF Contains(title_lower, <<"e","x","p","o","r","t"," ","c","o","n","t","r","o","l">>) THEN "Export Control"
        ELSE IF Lower(Get(d, "collection")) = <<"a","c","t">> THEN "Act"
        ELSE generic_subtype(title_lower)

\* title fragments: one for each branch of get_subtype after the aviation
\* tags (those are TitleParts), an aviation one, 'Order' without the blank
\* the Order branch asks for, and one no branch matches
SubtypeParts ==
    << <<"A","i","r","w","o","r","t","h","i","n","e","s","s">>,
      <<"T","a","r","i","f","f"," ","C","o","n","c","e","s","s","i","o","n">>,
      <<"S","t","a","t","e","m","e","n","t"," ","o","f"," ","P","r","i","n","c","i","p","l","e","s">>,
      <<"L","i","c","e","n","c","e"," ","A","r","e","a"," ","P","l","a","n">>,
      <<"N","a","t","i","v","e"," ","T","i","t","l","e">>,
      <<"S","u","p","e","r","a","n","n","u","a","t","i","o","n">>,
      <<" ","F","a","m","i","l","y"," ","L","a","w">>,
      <<"B","i","o","s","e","c","u","r","i","t","y">>,
      <<"T","h","e","r","a","p","e","u","t","i","c"," ","G","o","o","d","s"," ","(","M","e","d","i","c","a","l"," ","D","e","v","i","c","e","s",")">>,
      <<"E","x","p","o","r","t"," ","C","o","n","t","r","o","l">>,
      <<" ","R","e","g","u","l","a","t","i","o","n","s"," ","2","0","2","1">>,
      <<" ","D","e","t","e","r","m","i","n","a","t","i","o","n">>,
      <<" ","O","r","d","e","r">>,
      <<"O","r","d","e","r">>,
      <<" ","R","u","l","e","s">>,
      <<" ","D","i","r","e","c","t","i","o","n">>,
      <<" ","N","o","t","i","c","e">>,
      <<" ","D","e","c","l","a","r","a","t","i","o","n">>,
      <<"A","c","c","o","u","n","t","i","n","g"," ","S","t","a","n","d","a","r","d">>,
      <<"E","x","e","m","p","t","i","o","n">>,
      <<"A","p","p","r","o","v","a","l">>,
      <<" ","I","n","s","t","r","u","m","e","n","t">>,
      <<"P","r","o","c","l","a","m","a","t","i","o","n">>,
      <<"A","c","t">> >>

\* titles of at most MaxSubtypeParts of the fragments, in the order of the list
SubtypeTitles ==
    { Concat([i \in 1..Len(ix) |-> SubtypeParts[ix[i]]]) :
        ix \in { jx \in UNION { [1..n -> 1..Len(SubtypeParts)] : n \in 0..MaxSubtypeParts } :
                   \A i \in 1..(Len(jx) - 1) : jx[i] < jx[i + 1] } }

\* documents with a title, with and without a collection key
SubtypeDocs ==
    { [title |-> t, collection |-> c] : t \in SubtypeTitles, c \in Collections }
      \cup { [title |-> t] : t \in SubtypeTitles }

\* a call about to run; `between` tells whether calls on other documents were made
\* since the first call
Pending(fn, d) == [fn |-> fn, doc |-> d, result |-> "pending", between |-> FALSE]

IsPending(fn) == call # << >> /\ call[1].fn = fn /\ call[1].result = "pending"

\* the call has returned r; the first call that returns is kept
Return(r) ==
    /\ call' = <<[call[1] EXCEPT !.result = r]>>
    /\ kept' = IF kept = << >> THEN call' ELSE kept

\* the calls a run starts with
FirstCalls ==
    { Pending(fn, d) : fn \in {"get_type", "get_legislation_type",
                               "get_legislation_type_simple",
                               "get_legislation_type_split"}, d \in TypeDocs }
      \cup { Pending("get_subtype", d) : d \in SubtypeDocs }
      \cup { Pending(fn, d) : fn \in {"classify", "classify_mandala",
                                       "classify_primary_industry"},
                              d \in IndustryDocs }

\* the calls made between a call and its repetition
BetweenCalls ==
    { Pending("get_subtype", [title |-> <<"O","r","d","e","r">>]),
      Pending("classify", [title |-> <<"gas">>, text |-> <<"Police">>]) }

InitClass ==
    /\ IdleExtra
    /\ IdleDates
    /\ IdleCount
    /\ IdleExcl
    /\ IdleAgg
    /\ IdleBatch
    /\ classifier = NewClassifier
    /\ call \in { <<c>> : c \in FirstCalls }
    /\ kept = << >>

\* `for doc in documents`: the next document is another one, or the kept
\* one once more
NextDocument ==
    /\ call # << >>
    /\ call[1].result # "pending"
    /\ \/ \E c \in BetweenCalls : call' = <<[c EXCEPT !.between = TRUE]>>
       \/ call' = <<[kept[1] EXCEPT !.result = "pending",
                                    !.between = call[1].between]>>
    /\ UNCHANGED <<classifier, kept>>

\* generate_webapp_data.process_documents: doc_type = get_type(doc)
GetType ==
    /\ IsPending("get_type")
    /\ Return(get_type(call[1].doc))
    /\ UNCHANGED classifier

\* analysis_mandala_aligned.main: leg_type = get_legislation_type(collection)
GetLegislationType ==
    /\ IsPending("get_legislation_type")
    /\ Return(get_legislation_type(Get(call[1].doc, "collection")))
    /\ UNCHANGED classifier

\* time_series_split_simple.main: get_legislation_type(register_id, collection)
GetLegislationTypeSimple ==
    /\ IsPending("get_legislation_type_simple")
    /\ Return(get_legislation_type_simple(Get(call[1].doc, "register_id"),
                                          Get(call[1].doc, "collection")))
    /\ UNCHANGED classifier

\* anzsic_split_analysis.main: get_legislation_type(register_id, collection)
GetLegislationTypeSplit ==
    /\ IsPending("get_legislation_type_split")
    /\ Return(get_legislation_type_split(Get(call[1].doc, "register_id"),
                                         Get(call[1].doc, "collection")))
    /\ UNCHANGED classifier

\* generate_webapp_data.process_documents: subtype = get_subtype(doc)
GetSubtypeLabel ==
    /\ IsPending("get_subtype")
    /\ Return(get_subtype(call[1].doc))
    /\ UNCHANGED classifier

\* a classify that drops from its table every division it has returned
Classify_consuming ==
    /\ IsPending("classify")
    /\ \E r \in {classify(classifier, Get(call[1].doc, "title"), Get(call[1].doc, "text"))} :
          /\ Return(r)
          /\ classifier' = IF r \in DOMAIN classifier.patterns
                           THEN [classifier EXCEPT !.patterns[r] = << >>]
                           ELSE classifier

\* generate_webapp_data.process_documents:
\* anzsic_code = classifier.classify(title, text)
Classify ==
    /\ IsPending("classify")
    /\ Return(classify(classifier, Get(call[1].doc, "title"), Get(call[1].doc, "text")))
    /\ UNCHANGED classifier

\* analysis_mandala_aligned.main:
\* industry = classifier.classify(doc['title'], doc['text'])
ClassifyMandala ==
    /\ IsPending("classify_mandala")
    /\ Return(classify(classifier, call[1].doc.title, call[1].doc.text))
    /\ UNCHANGED classifier

\* anzsic_primary_industry.run_analysis:
\* classification = classifier.classify_primary_industry(doc)
ClassifyPrimaryIndustry ==
    /\ IsPending("classify_primary_industry")
    /\ Return(classify_primary_industry(classifier, call[1].doc))
    /\ UNCHANGED classifier

NextClass ==
    \/ Classify /\ UNCHANGED <<dateVars, countVars, exclVars, aggVars, batchVars, extraVars>>
    \/ ClassifyMandala /\ UNCHANGED <<dateVars, countVars, exclVars, aggVars, batchVars, extraVars>>
    \/ ClassifyPrimaryIndustry /\ UNCHANGED <<dateVars, countVars, exclVars, aggVars, batchVars, extraVars>>
    \/ NextDocument /\ UNCHANGED <<dateVars, countVars, exclVars, aggVars, batchVars, extraVars>>
    \/ GetType /\ UNCHANGED <<dateVars, countVars, exclVars, aggVars, batchVars, extraVars>>
    \/ GetLegislationType /\ UNCHANGED <<dateVars, countVars, exclVars, aggVars, batchVars, extraVars>>
    \/ GetLegislationTypeSimple /\ UNCHANGED <<dateVars, countVars, exclVars, aggVars, batchVars, extraVars>>
    \/ GetLegislationTypeSplit /\ UNCHANGED <<dateVars, countVars, exclVars, aggVars, batchVars, extraVars>>
    \/ GetSubtypeLabel /\ UNCHANGED <<dateVars, countVars, exclVars, aggVars, batchVars, extraVars>>

SpecClass == InitClass /\ [][NextClass]_vars

(***************************************************************************)
(* SpecBatch: a script's loop runs over the whole document list, a second  *)
(* time over the same list, and over the list in another order             *)
(***************************************************************************)
\* the lists of at most MaxBatch documents of a set
Lists(S) == UNION { [1..n -> S] : n \in 0..MaxBatch }

\* the orders a list of n documents can come in
Orders(n) == { p \in [1..n -> 1..n] : \A i, j \in 1..n : p[i] = p[j] => i = j }

Reorder(docs, p) == [i \in 1..Len(docs) |-> docs[p[i]]]

\* `for d in in_force: stats[lt]['count'] += 1 ...`
RECURSIVE Accumulate(_, _)
Accumulate(rows, st) ==
    IF rows = << >> THEN st
    ELSE Accumulate(Tail(rows),
                    AddTo(st, Head(rows).group, Head(rows).bc, Head(rows).regdata))

\* analysis_mandala_aligned.main: `included_docs`, then the `processed` rows
\* (`group` is the row's 'type')
RECURSIVE mandala_processed(_)
mandala_processed(docs) ==
    IF docs = << >> THEN << >>
    ELSE LET d == Head(docs)
             year == extract_year(Get(d, "register_id"))
         IN  (IF should_exclude(d) \/ year = 0 THEN << >>
              ELSE << [year |-> year,
                       group |-> get_legislation_type(Get(d, "collection")),
                       bc |-> count_bc(Get(d, "text")),
                       regdata |-> count_regdata(Get(d, "text"))] >>)
               \o mandala_processed(Tail(docs))

\* analysis_mandala_aligned.main: time_results[cutoff_year]
mandala_time_results(docs, cutoff_year) ==
    LET in_force == SelectSeq(mandala_processed(docs), LAMBDA d : d.year <= cutoff_year)
    IN  Accumulate(in_force, [g \in {"primary", "secondary"} |-> ZeroStats])

\* time_series_analysis.run_time_series_analysis: the loop over in_force
RECURSIVE tsa_loop(_, _)
tsa_loop(in_force, r) ==
    IF in_force = << >> THEN r
    ELSE LET x == Head(in_force).text
         IN  tsa_loop(Tail(in_force),
                 IF x # << >>
                 THEN [r EXCEPT !.documents_with_text = @ + 1,
                                !.bc_requirements = @ + count_bc_requirements(x),
                                !.regdata_restrictions = @ + count_regdata_restrictions(x)]
                 ELSE [r EXCEPT !.documents_without_text = @ + 1])

\* time_series_analysis.run_time_series_analysis: results[str(check_date)]
tsa_results(titles, cd) ==
    LET in_force == SelectSeq(titles, LAMBDA d : is_in_force_at(d, cd))
    IN  tsa_loop(in_force,
                 [documents_in_force |-> Len(in_force), documents_with_text |-> 0,
                  documents_without_text |-> 0, bc_requirements |-> 0,
                  regdata_restrictions |-> 0])

\* anzsic_primary_industry.count_requirements, 'regdata'
count_requirements_regdata(t) ==
    IF t = << >> THEN 0
    ELSE LET text_lower == LowerText(t)
         IN  CountWord(text_lower, "shall") + CountWord(text_lower, "must")
               + CountPair(text_lower, "may", "not", FALSE)
               + CountWord(text_lower, "required") + CountWord(text_lower, "prohibited")

\* anzsic_primary_industry.run_analysis: classified_docs (`group` is the
\* row's 'primary_industry_code')
classified_docs(c, docs) ==
    [i \in 1..Len(docs) |->
        [year |-> extract_year(Get(docs[i], "register_id")),
         group |-> classify_primary_industry(c, docs[i]),
         bc |-> count_requirements_bc(Get(docs[i], "text")),
         regdata |-> count_requirements_regdata(Get(docs[i], "text"))]]

\* industry_stats[code] of a defaultdict: a new code starts from zero
RECURSIVE AccumulateDefault(_, _)
AccumulateDefault(rows, st) ==
    IF rows = << >> THEN st
    ELSE LET g == Head(rows).group
             filled == [h \in DOMAIN st \cup {g} |->
                           IF h \in DOMAIN st THEN st[h] ELSE ZeroStats]
         IN  AccumulateDefault(Tail(rows),
                               AddTo(filled, g, Head(rows).bc, Head(rows).regdata))

\* anzsic_primary_industry.run_analysis: results[str(check_date)]
primary_results(c, docs, cd) ==
    LET in_force == SelectSeq(classified_docs(c, docs),
                              LAMBDA d : d.year # 0 /\ d.year <= cd[1])
    IN  AccumulateDefault(in_force, [h \in {} |-> ZeroStats])

BatchText1 == <<"Must", " ", "not", ".", "shall">>
BatchText2 == <<"required", " ", "required">>
BatchText3 == <<"shall">>

\* the documents of the corpus: Acts of YearMin, instruments of YearMax (one
\* of them an aviation instrument), a document whose id has no year
BatchDoc(id, t, x) ==
    [register_id |-> id, title |-> t, collection |-> CollectionOf(id), text |-> x,
     making_date |-> NoneStr, commencement_date |-> NoneStr, repeal_date |-> NoneStr,
     is_in_force |-> TRUE, year |-> 0]

ActId == <<"C">> \o YearChars(YearMin) \o <<"A", "0", "3">>
InstrumentId == <<"F">> \o YearChars(YearMax) \o <<"L", "9">>
NoYearId == <<"X", "9", "9">>

BatchDocs ==
    { BatchDoc(ActId, <<"O","r","d","e","r"," ">>, BatchText1),
      BatchDoc(ActId, <<"O","r","d","e","r"," ">>, BatchText2),
      BatchDoc(InstrumentId, <<"O","r","d","e","r"," ">>, BatchText3),
      BatchDoc(InstrumentId, <<"A","i","r","s","p","a","c","e">>, BatchText1),
      BatchDoc(NoYearId, <<"O","r","d","e","r"," ">>, << >>) }

\* the same corpus for the industry classifier: titles as words
IndustryBatchDocs ==
    { [register_id |-> ActId, title |-> <<"gas">>, text |-> BatchText1],
      [register_id |-> ActId, title |-> <<"gas", " ", "mine">>, text |-> BatchText2],
      [register_id |-> InstrumentId, title |-> <<"Police">>, text |-> BatchText3],
      [register_id |-> InstrumentId, title |-> <<"income", " ", "tax">>, text |-> << >>],
      [register_id |-> NoYearId, title |-> <<"x">>, text |-> BatchText1] }

\* a record of the loaded JSON list: a mapping or not, the keys whose value
\* is null, the other keys with their strings
Record(nulls, fields) == [mapping |-> TRUE, nulls |-> nulls, fields |-> fields]
NotAMapping == [mapping |-> FALSE, nulls |-> {}, fields |-> << >>]

\* Python's None among the strings: a value no string of the model equals
None == <<"None">>

\* doc.get(key, default)
PyGet(r, key, default) ==
    IF key \in r.nulls THEN None
    ELSE IF key \in DOMAIN r.fields THEN r.fields[key]
    ELSE default

Unknown == <<"U","n","k","n","o","w","n">>

\* BCRequirementsCounter.count_requirements, 'by_word': the text lowered
\* and its whitespace normalised, the six exclusion patterns masked in
\* order, then the binding words counted (no key at all for an empty text)
bc_count_requirements_by_word(t) ==
    IF t = << >> THEN [w \in {} |-> 0]
    ELSE LET processed_text == NormalizeSpaces(LowerText(t), 1)
             masked1 == SubPair(processed_text, "must", "not", TRUE, "___EXCLUDED___", 1)
             masked2 == SubPair(masked1, "shall", "not", TRUE, "___EXCLUDED___", 1)
             masked3 == SubPair(masked2, "must", "never", TRUE, "___EXCLUDED___", 1)
             masked4 == SubPair(masked3, "shall", "never", TRUE, "___EXCLUDED___", 1)
             masked5 == SubPair(masked4, "not", "required", TRUE, "___EXCLUDED___", 1)
             masked_text == SubTriple(masked5, "no", "longer", "required",
                                      "___EXCLUDED___", 1)
         IN  [w \in BC_BINDING_WORDS |-> CountWord(masked_text, w)]

\* BCRequirementsCounter.count_requirements, 'total': sum(counts.values())
bc_count_requirements_total(t) ==
    LET by_word == bc_count_requirements_by_word(t)
    IN  SumOver(by_word, DOMAIN by_word)

\* a JSON array where a string is expected: a value that cannot be a
\* dictionary key
AList == <<"[", "]">>

\* variant: a regulation without text is an error
analyze_regulation_requires_text(counter, reg) ==
    IF ~reg.mapping \/ PyGet(reg, "text", << >>) \in {None, << >>}
    THEN [raised |-> TRUE]
    ELSE LET x == PyGet(reg, "text", << >>)
         IN  [raised |-> FALSE,
              id |-> PyGet(reg, "id", Unknown),
              title |-> PyGet(reg, "title", Unknown),
              department |-> PyGet(reg, "department", Unknown),
              text_length |-> Len(x),
              total |-> IF counter = "bc_counter" THEN bc_count_requirements_total(x)
                        ELSE count_restrictions_total(x),
              by_word |-> IF counter = "bc_counter" THEN bc_count_requirements_by_word(x)
                          ELSE count_restrictions_by_word(x)]

\* BCRequirementsCounter.analyze_regulation and
\* RegDataRestrictionsCounter.analyze_regulation: the analysis, or an
\* exception (.get of a record that is no mapping, len() of a null text)
analyze_regulation(counter, reg) ==
    IF ~reg.mapping THEN [raised |-> TRUE]
    ELSE LET x == PyGet(reg, "text", << >>)
         IN  IF x = None THEN [raised |-> TRUE]
             ELSE [raised |-> FALSE,
                   id |-> PyGet(reg, "id", Unknown),
                   title |-> PyGet(reg, "title", Unknown),
                   department |-> PyGet(reg, "department", Unknown),
                   text_length |-> Len(x),
                   total |-> IF counter = "bc_counter" THEN bc_count_requirements_total(x)
                             ELSE count_restrictions_total(x),
                   by_word |-> IF counter = "bc_counter" THEN bc_count_requirements_by_word(x)
                               ELSE count_restrictions_by_word(x)]

\* list.sort(key=total, reverse=True): stable, highest total first
RECURSIVE InsertByTotal(_, _)
InsertByTotal(sorted, e) ==
    IF sorted = << >> THEN <<e>>
    ELSE IF Head(sorted).total >= e.total THEN <<Head(sorted)>> \o InsertByTotal(Tail(sorted), e)
    ELSE <<e>> \o sorted

RECURSIVE SortByTotal(_, _)
SortByTotal(entries, sorted) ==
    IF entries = << >> THEN sorted
    ELSE SortByTotal(Tail(entries), InsertByTotal(sorted, Head(entries)))

\* results['by_department'][dept]: count += total_requirements, regulations += 1
AddDepartment(by_department, dept, total) ==
    [d \in DOMAIN by_department \cup {dept} |->
        LET old == IF d \in DOMAIN by_department THEN by_department[d]
                   ELSE [count |-> 0, regulations |-> 0]
        IN  IF d = dept THEN [count |-> old.count + total,
                              regulations |-> old.regulations + 1]
            ELSE old]

\* `for word, count in analysis.get('counts_by_word', {}).items()`
AddWords(by_word, counts_by_word) ==
    [w \in DOMAIN by_word \cup DOMAIN counts_by_word |->
        (IF w \in DOMAIN by_word THEN by_word[w] ELSE 0)
          + (IF w \in DOMAIN counts_by_word THEN counts_by_word[w] ELSE 0)]

\* analyze_regulations: `for reg in regulations` with its try/except. The
\* analysis is appended and added to the totals, then to by_department (a
\* department that cannot be a key raises there, after the totals) and to
\* by_word; the except clause formats reg.get('id'), which raises again when
\* the record is no mapping, and that exception leaves the loop
RECURSIVE analyze_loop(_, _, _, _)
analyze_loop(counter, regulations, i, res) ==
    IF i > Len(regulations)
    THEN [res EXCEPT !.by_regulation = SortByTotal(@, << >>)]
    ELSE LET analysis == analyze_regulation(counter, regulations[i])
         IN  IF ~analysis.raised
             THEN LET added == [res EXCEPT !.by_regulation = Append(@, analysis),
                                           !.total = @ + analysis.total,
                                           !.regulations_analyzed = @ + 1]
                  IN  IF analysis.department = AList
                      THEN analyze_loop(counter, regulations, i + 1, added)
                      ELSE analyze_loop(counter, regulations, i + 1,
                               [added EXCEPT !.by_department =
                                                 AddDepartment(@, analysis.department,
                                                               analysis.total),
                                             !.by_word = AddWords(@, analysis.by_word)])
             ELSE IF ~regulations[i].mapping THEN [res EXCEPT !.raised = TRUE]
             ELSE analyze_loop(counter, regulations, i + 1, res)

\* BCRequirementsCounter.analyze_regulations and
\* RegDataRestrictionsCounter.analyze_regulations (`total` is
\* total_requirements / total_restrictions)
analyze_regulations(counter, regulations) ==
    analyze_loop(counter, regulations, 1,
                 [raised |-> FALSE, total |-> 0, total_regulations |-> Len(regulations),
                  regulations_analyzed |-> 0, by_regulation |-> << >>,
                  by_department |-> [d \in {} |-> 0], by_word |-> [w \in {} |-> 0]])

\* the word of the text model a word of a title is (matching ignores case)
WordAtomOf(w) ==
    CASE Lower(w) = <<"g","a","s">> -> "gas"
      [] Lower(w) = <<"p","o","l","i","c","e">> -> "police"
      [] OTHER -> "x"

\* a title of letters and blanks as the classifier's patterns see it
RECURSIVE TitleAtoms(_, _)
TitleAtoms(s, word) ==
    LET done == IF word = << >> THEN << >> ELSE <<WordAtomOf(word)>>
    IN  IF s = << >> THEN done
        ELSE IF Head(s) = " " THEN done \o <<" ">> \o TitleAtoms(Tail(s), << >>)
        ELSE TitleAtoms(Tail(s), Append(word, Head(s)))

\* process_documents, the body of `for doc in documents`: no row (the year
\* skip), a row, or an exception (.get of a record that is no mapping,
\* re.search, .lower() or a slice of a null)
process_document(c, r) ==
    IF ~r.mapping THEN [raised |-> TRUE, row |-> << >>]
    ELSE LET register_id == PyGet(r, "register_id", PyGet(r, "id", << >>))
             title == PyGet(r, "title", << >>)
             x == PyGet(r, "text", << >>)
             collection == PyGet(r, "collection", << >>)
             d == [title |-> title, collection |-> collection]
         IN  IF register_id = None THEN [raised |-> TRUE, row |-> << >>]
             ELSE IF extract_year(register_id) = 0
                     \/ extract_year(register_id) < WEBAPP_MIN_YEAR
             THEN [raised |-> FALSE, row |-> << >>]
             ELSE IF None \in {collection, title, x} THEN [raised |-> TRUE, row |-> << >>]
             ELSE [raised |-> FALSE,
                   row |-> << [making_year |-> extract_year(register_id),
                               register_id |-> register_id,
                               title |-> title,
                               type |-> get_type(d),
                               subtype |-> get_subtype(d),
                               anzsic_code |-> classify(c, TitleAtoms(title, << >>), x),
                               bc_requirements |-> count_bc(x),
                               regdata_requirements |-> count_regdata(x)] >>]

\* process_documents after the sampling: the rows, unless a record raises
RECURSIVE process_loop(_, _, _, _)
process_loop(c, docs, i, rows) ==
    IF i > Len(docs) THEN [raised |-> FALSE, rows |-> rows]
    ELSE LET step == process_document(c, docs[i])
         IN  IF step.raised THEN [raised |-> TRUE, rows |-> << >>]
             ELSE process_loop(c, docs, i + 1, rows \o step.row)

\* int(len(documents) * sample_pct), sample_pct in percent
sample_size(docs, pct) == (Len(docs) * pct) \div 100

\* random.sample(documents, sample_size): sample_size distinct positions in
\* any order; the whole list when sample_pct is 1.0
Samples(docs, pct) ==
    IF pct < 100
    THEN { [i \in 1..sample_size(docs, pct) |-> docs[p[i]]] :
             p \in { q \in [1..sample_size(docs, pct) -> 1..Len(docs)] :
                       \A i, j \in DOMAIN q : q[i] = q[j] => i = j } }
    ELSE {docs}

GasOrder == <<"G","a","s"," ","O","r","d","e","r">>
PoliceRules == <<"P","o","l","i","c","e"," ","R","u","l","e","s">>

\* the records process_documents meets: well formed (one with its id under
\* 'id'), without a title, with a null title, and one that is no mapping
WebappRecords ==
    { Record({}, [register_id |-> ActId, title |-> GasOrder,
                  collection |-> CollectionOf(ActId), text |-> BatchText1]),
      Record({}, [id |-> InstrumentId, title |-> PoliceRules,
                  collection |-> CollectionOf(InstrumentId), text |-> BatchText3]),
      Record({}, [register_id |-> InstrumentId,
                  collection |-> CollectionOf(InstrumentId), text |-> << >>]),
      Record({"title"}, [register_id |-> InstrumentId,
                         collection |-> CollectionOf(InstrumentId), text |-> BatchText3]),
      NotAMapping }

\* the records the counters meet: well formed, with an empty text, without
\* text, with a null text, without title and id, and one that is no mapping
CounterRecords ==
    { Record({}, [id |-> ActId, title |-> GasOrder, text |-> BatchText1]),
      Record({}, [id |-> InstrumentId, title |-> PoliceRules, text |-> BatchText2]),
      Record({}, [id |-> InstrumentId, title |-> PoliceRules, text |-> << >>]),
      Record({}, [id |-> ActId, title |-> PoliceRules]),
      Record({"text"}, [id |-> ActId, title |-> GasOrder]),
      Record({}, [text |-> BatchText3]),
      Record({"department"}, [id |-> InstrumentId, text |-> BatchText1]),
      Record({}, [id |-> ActId, department |-> <<"D","I","S","R">>, text |-> BatchText2]),
      Record({}, [id |-> ActId, department |-> AList, text |-> BatchText2]),
      NotAMapping }

\* sample_pct, in percent: SAMPLE_PCT of main and a half sample
SamplePcts == {100, 50}

Job(script, cd, pct) == [script |-> script, check_date |-> cd, sample_pct |-> pct]

InitBatch ==
    /\ IdleExtra
    /\ IdleDates
    /\ IdleCount
    /\ IdleExcl
    /\ IdleAgg
    /\ IdleClass
    /\ \/ \E script \in {"mandala", "tsa", "primary"}, cd \in RefDates :
             /\ job = Job(script, cd, 100)
             /\ documents \in Lists(IF script = "primary" THEN IndustryBatchDocs
                                    ELSE BatchDocs)
       \/ \E pct \in SamplePcts :
             /\ job = Job("webapp", << >>, pct)
             /\ documents \in Lists(WebappRecords)
       \/ \E script \in {"bc_counter", "regdata_counter"} :
             /\ job = Job(script, << >>, 100)
             /\ documents \in Lists(CounterRecords)
    /\ input = << >>
    /\ results = << >>
    /\ baseline = << >>

\* a run has returned r; the first run's result is kept
Finish(r) ==
    /\ results' = <<r>>
    /\ baseline' = IF baseline = << >> THEN <<r>> ELSE baseline

\* the list a run is given: the loaded list the first time, then the same
\* documents in any order
Handed(docs) ==
    IF baseline = << >> THEN {docs}
    ELSE { Reorder(docs, p) : p \in Orders(Len(docs)) }

\* analysis_mandala_aligned.main, one cutoff year
MandalaRun ==
    /\ job.script = "mandala"
    /\ \E docs \in Handed(documents) :
          /\ input' = docs
          /\ Finish(mandala_time_results(docs, job.check_date[1]))
    /\ UNCHANGED <<documents, job>>

\* time_series_analysis.run_time_series_analysis, one time point
TsaRun ==
    /\ job.script = "tsa"
    /\ \E docs \in Handed(documents) :
          /\ input' = docs
          /\ Finish(tsa_results(docs, job.check_date))
    /\ UNCHANGED <<documents, job>>

\* anzsic_primary_industry.run_analysis, one time point
PrimaryRun ==
    /\ job.script = "primary"
    /\ \E docs \in Handed(documents) :
          /\ input' = docs
          /\ Finish(primary_results(NewClassifier, docs, job.check_date))
    /\ UNCHANGED <<documents, job>>

\* generate_webapp_data.process_documents
ProcessDocuments ==
    /\ job.script = "webapp"
    /\ \E docs \in Samples(documents, job.sample_pct) :
          /\ input' = docs
          /\ Finish(process_loop(NewClassifier, docs, 1, << >>))
    /\ UNCHANGED <<documents, job>>

\* BCRequirementsCounter.analyze_regulations
AnalyzeRegulationsBC ==
    /\ job.script = "bc_counter"
    /\ input' = documents
    /\ Finish(analyze_regulations("bc_counter", documents))
    /\ UNCHANGED <<documents, job>>

\* RegDataRestrictionsCounter.analyze_regulations
AnalyzeRegulationsRegData ==
    /\ job.script = "regdata_counter"
    /\ input' = documents
    /\ Finish(analyze_regulations("regdata_counter", documents))
    /\ UNCHANGED <<documents, job>>

NextBatch ==
    \/ MandalaRun /\ UNCHANGED <<dateVars, countVars, exclVars, aggVars, classVars, extraVars>>
    \/ TsaRun /\ UNCHANGED <<dateVars, countVars, exclVars, aggVars, classVars, extraVars>>
    \/ PrimaryRun /\ UNCHANGED <<dateVars, countVars, exclVars, aggVars, classVars, extraVars>>
    \/ ProcessDocuments /\ UNCHANGED <<dateVars, countVars, exclVars, aggVars, classVars, extraVars>>
    \/ AnalyzeRegulationsBC /\ UNCHANGED <<dateVars, countVars, exclVars, aggVars, classVars, extraVars>>
    \/ AnalyzeRegulationsRegData /\ UNCHANGED <<dateVars, countVars, exclVars, aggVars, classVars, extraVars>>

SpecBatch == InitBatch /\ [][NextBatch]_vars

(***************************************************************************)
(* SpecYear: one register id goes through the year-extraction functions    *)
(***************************************************************************)
\* the pattern C(\d{4})A matches at position i
ActYearMatchAt(id, i) ==
    /\ i + 5 <= Len(id)
    /\ id[i] = "C"
    /\ \A k \in 1..4 : IsDigit(id[i + k])
    /\ id[i + 5] = "A"

\* ANZSICClassifier.extract_year_from_register_id: re.search(r'C(\d{4})A'),
\* 0 stands for None
extract_year_from_register_id(id) ==
    IF \E i \in 1..Len(id) : ActYearMatchAt(id, i)
    THEN LET i == CHOOSE j \in 1..Len(id) :
                      ActYearMatchAt(id, j) /\ \A k \in 1..(j - 1) : ~ActYearMatchAt(id, k)
         IN  DigitVal(id[i + 1]) * 1000 + DigitVal(id[i + 2]) * 100
               + DigitVal(id[i + 3]) * 10 + DigitVal(id[i + 4])
    ELSE 0

\* ids handed to the functions: Acts, instruments and compilations of every
\* year, an id with the year inside it, and ids without a C or F followed by
\* four digits
YearIds ==
    { <<p>> \o YearChars(y) \o <<l, "0", "3", "9">> :
          p \in {"C", "F"}, y \in Years, l \in {"A", "L", "C"} }
      \cup { <<"X", "F">> \o YearChars(YearMin) \o <<"L", "1">>,
             <<"X", "9", "9">>,
             <<"C", "2", "0", "0", "A", "1">>,
             <<"c">> \o YearChars(YearMin) \o <<"A", "1">>,
             << >> }

InitYear ==
    /\ IdleTwin
    /\ IdleDiff
    /\ IdlePaging
    /\ IdleUpdate
    /\ IdleRows
    /\ IdleDates
    /\ IdleCount
    /\ IdleExcl
    /\ IdleAgg
    /\ IdleClass
    /\ IdleBatch
    /\ idGiven \in YearIds
    /\ yearOf = [webapp |-> Unset, mandala |-> Unset, primary |-> Unset,
                 classifier |-> Unset]

\* generate_webapp_data.process_documents: year = extract_year(register_id)
ExtractYearWebapp ==
    /\ yearOf.webapp = Unset
    /\ yearOf' = [yearOf EXCEPT !.webapp = extract_year(idGiven)]
    /\ UNCHANGED idGiven

\* analysis_mandala_aligned.main: year = extract_year(register_id)
ExtractYearMandala ==
    /\ yearOf.mandala = Unset
    /\ yearOf' = [yearOf EXCEPT !.mandala = extract_year(idGiven)]
    /\ UNCHANGED idGiven

\* anzsic_primary_industry.run_analysis: extract_year_from_id(register_id)
ExtractYearFromId ==
    /\ yearOf.primary = Unset
    /\ yearOf' = [yearOf EXCEPT !.primary = extract_year(idGiven)]
    /\ UNCHANGED idGiven

\* ANZSICClassifier.analyze_document:
\* year = self.extract_year_from_register_id(register_id)
ExtractYearFromRegisterId ==
    /\ yearOf.classifier = Unset
    /\ yearOf' = [yearOf EXCEPT !.classifier = extract_year_from_register_id(idGiven)]
    /\ UNCHANGED idGiven

OtherThanYear == <<dateVars, countVars, exclVars, aggVars, classVars, batchVars, rowsVars, updateVars, pagingVars, diffVars, twinVars>>

NextYear ==
    \/ ExtractYearWebapp /\ UNCHANGED OtherThanYear
    \/ ExtractYearMandala /\ UNCHANGED OtherThanYear
    \/ ExtractYearFromId /\ UNCHANGED OtherThanYear
    \/ ExtractYearFromRegisterId /\ UNCHANGED OtherThanYear

SpecYear == InitYear /\ [][NextYear]_vars

(***************************************************************************)
(* SpecRows: generate_time_series_rows over a list of base rows            *)
(***************************************************************************)
\* ts_row = row.copy(); ts_row['as_of_year'] = year;
\* ts_row['as_of_date'] = f"{year}-07-01"
ts_row(row, year) ==
    [k \in DOMAIN row \cup {"as_of_year", "as_of_date"} |->
        IF k = "as_of_year" THEN year
        ELSE IF k = "as_of_date" THEN <<year, 7, 1>>
        ELSE row[k]]

\* for year in range(first, end_year + 1): time_series_rows.append(ts_row)
RECURSIVE rows_for_years(_, _, _)
rows_for_years(row, first, end_year) ==
    IF first > end_year THEN << >>
    ELSE <<ts_row(row, first)>> \o rows_for_years(row, first + 1, end_year)

RECURSIVE generate_time_series_rows_from_start(_, _, _)
generate_time_series_rows_from_start(rows, start_year, end_year) ==
    IF rows = << >> THEN << >>
    ELSE rows_for_years(Head(rows), start_year, end_year)
           \o generate_time_series_rows_from_start(Tail(rows), start_year, end_year)

\* generate_time_series_rows: the list it returns
RECURSIVE generate_time_series_rows(_, _, _)
generate_time_series_rows(rows, start_year, end_year) ==
    IF rows = << >> THEN << >>
    ELSE rows_for_years(Head(rows), Max(Head(rows).making_year, start_year), end_year)
           \o generate_time_series_rows(Tail(rows), start_year, end_year)

\* documents of every year, an Act and an instrument, as process_documents
\* reads them
RowRecords ==
    { Record({}, [register_id |-> <<"C">> \o YearChars(y) \o <<"A", "0", "3">>,
                  title |-> GasOrder, collection |-> <<"A","c","t">>,
                  text |-> BatchText1]) : y \in Years }
      \cup { Record({}, [register_id |-> <<"F">> \o YearChars(y) \o <<"L", "9">>,
                         title |-> PoliceRules,
                         collection |-> CollectionOf(<<"F">>), text |-> BatchText3]) :
                 y \in Years }

\* the base rows process_documents makes of them
BaseRowSet == { process_document(NewClassifier, r).row[1] : r \in RowRecords }

\* start_year and end_year: before, inside and after the making years
Spans == { [start_year |-> a, end_year |-> b] : a \in Years, b \in (YearMin - 1)..YearMax }

InitRows ==
    /\ IdleTwin
    /\ IdleDiff
    /\ IdlePaging
    /\ IdleUpdate
    /\ IdleDates
    /\ IdleCount
    /\ IdleExcl
    /\ IdleAgg
    /\ IdleClass
    /\ IdleBatch
    /\ IdleYear
    /\ base_rows \in Lists(BaseRowSet)
    /\ span \in Spans
    /\ time_series_rows = << >>

\* main: ts_rows = generate_time_series_rows(base_rows, START_YEAR, END_YEAR);
\* the loop writes to copies only, base_rows is what it was
GenerateTimeSeriesRows ==
    /\ time_series_rows = << >>
    /\ time_series_rows' =
          <<generate_time_series_rows(base_rows, span.start_year, span.end_year)>>
    /\ UNCHANGED <<base_rows, span>>

OtherThanRows == <<dateVars, countVars, exclVars, aggVars, classVars, batchVars, yearVars, updateVars, pagingVars, diffVars, twinVars>>

NextRows ==
    \/ GenerateTimeSeriesRows /\ UNCHANGED OtherThanRows

SpecRows == InitRows /\ [][NextRows]_vars

(***************************************************************************)
(* SpecUpdate: scheduled runs of scheduled_api_update.main                 *)
(***************************************************************************)
MaxRuns == 3

\* the files of data/metadata
MetaFiles == {"C2000A03.json", "F2001L9.json"}

\* a run that has just been started by the scheduler
NewRun ==
    [pc |-> "start", marker_at_start |-> FALSE, requests |-> 0, fetched |-> {},
     written |-> {}, caught |-> FALSE, code |-> Unset]

\* return <code>
Returned(r, code) == [r EXCEPT !.pc = "returned", !.code = code]

InitUpdate ==
    /\ IdleTwin
    /\ IdleDiff
    /\ IdlePaging
    /\ IdleDates
    /\ IdleCount
    /\ IdleExcl
    /\ IdleAgg
    /\ IdleClass
    /\ IdleBatch
    /\ IdleYear
    /\ IdleRows
    /\ marker = "absent"
    /\ upd = NewRun
    /\ nruns = 1
    /\ clean = FALSE

\* main: if COMPLETION_MARKER.exists(): return 0
CheckMarker ==
    /\ upd.pc = "start"
    /\ upd' = IF marker # "absent"
              THEN Returned([upd EXCEPT !.marker_at_start = TRUE], 0)
              ELSE [upd EXCEPT !.pc = "check_api"]
    /\ UNCHANGED <<marker, nruns, clean>>

\* main: if not check_api_available(): return 1.  One request; status 200,
\* another status, or an exception that check_api_available catches
CheckApiAvailable ==
    /\ upd.pc = "check_api"
    /\ \E outcome \in {"200", "503", "raises"} :
          upd' = IF outcome = "200"
                 THEN [upd EXCEPT !.pc = "fetch_act", !.requests = @ + 1]
                 ELSE Returned([upd EXCEPT !.requests = @ + 1], 1)
    /\ UNCHANGED <<marker, nruns, clean>>

\* main: api_data = fetch_collection_metadata(collection), first 'act' and
\* then 'legislativeinstrument'; an exception in a page is re-raised and
\* main's except clause returns 1
FetchCollectionMetadata ==
    /\ upd.pc \in {"fetch_act", "fetch_legislativeinstrument"}
    /\ \E outcome \in {"ok", "raises"} :
          upd' = IF outcome = "raises"
                 THEN Returned([upd EXCEPT !.requests = @ + 1], 1)
                 ELSE IF upd.pc = "fetch_act"
                 THEN [upd EXCEPT !.pc = "fetch_legislativeinstrument",
                                  !.requests = @ + 1, !.fetched = @ \cup {"act"}]
                 ELSE [upd EXCEPT !.pc = "update", !.requests = @ + 1,
                                  !.fetched = @ \cup {"legislativeinstrument"}]
    /\ UNCHANGED <<marker, nruns, clean>>

\* main: updated = update_metadata_files(all_api_data); the exception of a
\* file that cannot be read or written is caught and logged, the loop goes on
UpdateMetadataFiles ==
    /\ upd.pc = "update"
    /\ \E failing \in SUBSET MetaFiles :
          upd' = [upd EXCEPT !.pc = "regenerate",
                             !.written = @ \cup (MetaFiles \ failing),
                             !.caught = @ \/ failing # {}]
    /\ UNCHANGED <<marker, nruns, clean>>

\* main: regenerate_combined_json(); the exception of a metadata file that
\* cannot be loaded is caught and logged, the one of the final write is not
RegenerateCombinedJson ==
    /\ upd.pc = "regenerate"
    /\ \E failing \in SUBSET MetaFiles, outcome \in {"ok", "raises"} :
          upd' = IF outcome = "raises"
                 THEN Returned([upd EXCEPT !.caught = @ \/ failing # {}], 1)
                 ELSE [upd EXCEPT !.pc = "mark",
                                  !.written = @ \cup {"scraped_legislation.json"},
                                  !.caught = @ \/ failing # {}]
    /\ UNCHANGED <<marker, nruns, clean>>

\* main: with open(COMPLETION_MARKER, 'w') as f: json.dump(...); return 0.
\* open() may raise (no file is made), and so may the write or the close
\* after open() has made the file
WriteMarker ==
    /\ upd.pc = "mark"
    /\ \E outcome \in {"ok", "open_raises", "write_raises"} :
          /\ marker' = IF outcome = "open_raises" THEN marker
                       ELSE IF outcome = "ok" THEN "complete" ELSE "partial"
          /\ upd' = IF outcome = "ok"
                    THEN Returned([upd EXCEPT !.written = @ \cup {"api_update_complete.json"}], 0)
                    ELSE IF outcome = "open_raises" THEN Returned(upd, 1)
                    ELSE Returned([upd EXCEPT !.written = @ \cup {"api_update_complete.json"}], 1)
          /\ clean' = (clean \/ (outcome = "ok" /\ ~upd.caught))
    /\ UNCHANGED nruns

\* the task scheduler starts the script again
NextRun ==
    /\ upd.pc = "returned"
    /\ nruns < MaxRuns
    /\ nruns' = nruns + 1
    /\ upd' = NewRun
    /\ UNCHANGED <<marker, clean>>

OtherThanUpdate == <<dateVars, countVars, exclVars, aggVars, classVars, batchVars, yearVars, rowsVars, pagingVars, diffVars, twinVars>>

NextUpdate ==
    \/ CheckMarker /\ UNCHANGED OtherThanUpdate
    \/ CheckApiAvailable /\ UNCHANGED OtherThanUpdate
    \/ FetchCollectionMetadata /\ UNCHANGED OtherThanUpdate
    \/ UpdateMetadataFiles /\ UNCHANGED OtherThanUpdate
    \/ RegenerateCombinedJson /\ UNCHANGED OtherThanUpdate
    \/ WriteMarker /\ UNCHANGED OtherThanUpdate
    \/ NextRun /\ UNCHANGED OtherThanUpdate

SpecUpdate == InitUpdate /\ [][NextUpdate]_vars

(***************************************************************************)
(* SpecPaging: the paging loop of fetch_all_titles /                       *)
(* fetch_all_titles_from_api                                               *)
(***************************************************************************)
\* page_size (100 in the code), the titles the API holds at most, and the
\* failed attempts of one run
PageSize == 2
MaxServerItems == 3
MaxAttempts == 2

FetchFns == {"fetch_all_titles", "fetch_all_titles_split", "fetch_all_titles_from_api"}

\* what the API holds: each title principal or amending, known by its place
ServerLists == UNION { [1..n -> {"principal", "amending"}] : n \in 0..MaxServerItems }

\* $top=page_size & $skip=skip: the places of the page
PageAt(titles, skip) == { i \in 1..Len(titles) : skip < i /\ i <= skip + PageSize }

\* `if not item.get('isPrincipal', False): continue` in the two
\* fetch_all_titles; fetch_all_titles_from_api appends every item
Appended(fn, titles, i) ==
    fn = "fetch_all_titles_from_api" \/ titles[i] = "principal"

\* the items of places lo..hi that the loop body appends, in order
RECURSIVE AppendItems(_, _, _, _, _)
AppendItems(fn, titles, lo, hi, all_items) ==
    IF lo > hi THEN all_items
    ELSE AppendItems(fn, titles, lo + 1, hi,
                     IF Appended(fn, titles, lo) THEN Append(all_items, lo)
                     ELSE all_items)

InitPaging ==
    /\ IdleTwin
    /\ IdleDiff
    /\ IdleDates
    /\ IdleCount
    /\ IdleExcl
    /\ IdleAgg
    /\ IdleClass
    /\ IdleBatch
    /\ IdleYear
    /\ IdleRows
    /\ IdleUpdate
    /\ \E fn \in FetchFns, titles \in ServerLists :
          server = [fn |-> fn, titles |-> titles]
    /\ paging = [pc |-> "loop", skip |-> 0, all_items |-> << >>, attempts |-> 0]

\* one pass of `while True` in which nothing raises: break on an empty
\* page, else append the items, skip += page_size, break on a short page
FetchPage ==
    /\ paging.pc = "loop"
    /\ \E items \in {PageAt(server.titles, paging.skip)} :
          paging' =
            IF items = {} THEN [paging EXCEPT !.pc = "returned"]
            ELSE [paging EXCEPT
                    !.all_items = AppendItems(server.fn, server.titles, paging.skip + 1,
                                              paging.skip + Cardinality(items), @),
                    !.skip = @ + PageSize,
                    !.pc = IF Cardinality(items) < PageSize THEN "returned" ELSE "loop"]
    /\ UNCHANGED server

\* one pass in which the request raises (k = 0) or the processing of the
\* k-th item of the page raises (item['id'], item['name'], status.get):
\* the items before it are in all_items already, `except` sleeps and
\* `continue` repeats the pass with the same skip
FetchPageRaises ==
    /\ paging.pc = "loop"
    /\ paging.attempts < MaxAttempts
    /\ \E items \in {PageAt(server.titles, paging.skip)} :
       \E k \in 0..Cardinality(items) :
          paging' = [paging EXCEPT
                       !.all_items = AppendItems(server.fn, server.titles, paging.skip + 1,
                                                 paging.skip + k - 1, @),
                       !.attempts = @ + 1]
    /\ UNCHANGED server

OtherThanPaging == <<dateVars, countVars, exclVars, aggVars, classVars, batchVars, yearVars, rowsVars, updateVars, diffVars, twinVars>>

NextPaging ==
    \/ FetchPage /\ UNCHANGED OtherThanPaging
    \/ FetchPageRaises /\ UNCHANGED OtherThanPaging

SpecPaging == InitPaging /\ [][NextPaging]_vars

(***************************************************************************)
(* SpecDiff: analysis_mandala_aligned.main counts every document with both *)
(* methods and adds the counts up by legislation type                      *)
(***************************************************************************)
DiffTextLen == 4
MaxCompanions == 1

\* the words either method looks for or masks, a space and a line break
DiffAtoms == {"Must", "shall", "prohibited", "may", "not", " ", "\n"}
DiffTexts == UNION { [1..n -> DiffAtoms] : n \in 0..DiffTextLen }

DiffDoc(collection, x) == [collection |-> collection, text |-> x]

\* the other documents of the run: an Act and an instrument
CompanionDocs ==
    { DiffDoc(<<"A","c","t">>, <<"Must", " ", "not", " ", "may", " ", "not">>),
      DiffDoc(<<"l","i">>, <<"shall", "\n", "not", " ", "required">>) }

InitDiff ==
    /\ IdleTwin
    /\ IdleDates
    /\ IdleCount
    /\ IdleExcl
    /\ IdleAgg
    /\ IdleClass
    /\ IdleBatch
    /\ IdleYear
    /\ IdleRows
    /\ IdleUpdate
    /\ IdlePaging
    /\ \E x \in DiffTexts, c \in {<<"A","c","t">>, <<"l","i">>} :
       \E rest \in UNION { [1..n -> CompanionDocs] : n \in 0..MaxCompanions } :
          included_docs = <<DiffDoc(c, x)>> \o rest
    /\ processed = << >>
    /\ period_stats = << >>

\* variant: the RegData count is taken after 'must not' has been masked
ProcessDoc_negations_masked ==
    /\ included_docs # << >>
    /\ LET d == Head(included_docs)
       IN  processed' = Append(processed,
                               [group |-> get_legislation_type(d.collection),
                                bc |-> count_bc(d.text),
                                regdata |-> count_regdata(SubPair(LowerText(d.text), "must", "not",
                                                                  TRUE, "__NEG__", 1)),
                                text |-> d.text])
    /\ included_docs' = Tail(included_docs)
    /\ UNCHANGED period_stats

\* `for doc in included_docs:` one document: both counts, one processed row
ProcessDoc ==
    /\ included_docs # << >>
    /\ LET d == Head(included_docs)
       IN  processed' = Append(processed,
                               [group |-> get_legislation_type(d.collection),
                                bc |-> count_bc(d.text),
                                regdata |-> count_regdata(d.text),
                                text |-> d.text])
    /\ included_docs' = Tail(included_docs)
    /\ UNCHANGED period_stats

\* `for d in in_force: stats[lt]['bc'] += d['bc'] ...` at a cutoff year
\* that every processed document is in force at
AggregatePeriod ==
    /\ included_docs = << >>
    /\ period_stats = << >>
    /\ period_stats' = <<Accumulate(processed,
                                    [g \in {"primary", "secondary"} |-> ZeroStats])>>
    /\ UNCHANGED <<included_docs, processed>>

OtherThanDiff == <<dateVars, countVars, exclVars, aggVars, classVars, batchVars, yearVars, rowsVars, updateVars, pagingVars, twinVars>>

NextDiff ==
    \/ ProcessDoc /\ UNCHANGED OtherThanDiff
    \/ AggregatePeriod /\ UNCHANGED OtherThanDiff

SpecDiff == InitDiff /\ [][NextDiff]_vars

(***************************************************************************)
(* SpecTwin: one text goes through BCRequirementsCounter and count_bc,     *)
(* through RegDataRestrictionsCounter and count_regdata; then one blank    *)
(* between two words is replaced and the four count again                  *)
(***************************************************************************)
TwinTextLen == 4

\* the words of the exclusion patterns and of the two word lists, a blank,
\* and a line break (a tab is whitespace to \s and to ' ' exactly as it is)
TwinAtoms == {"Must", "shall", "required", "prohibited", "may", "not", "never",
              "no", "longer", " ", "\n"}
TwinPhrases == { <<"no", " ", "longer", " ", "required">>,
                 <<"shall", " ", "never", " ", "may", " ", "not">> }
TwinTexts == UNION { [1..n -> TwinAtoms] : n \in 0..TwinTextLen } \cup TwinPhrases

NoCounts == [bc_class |-> Unset, bc_fn |-> Unset,
             regdata_class |-> Unset, regdata_fn |-> Unset, before |-> << >>]

InitTwin ==
    /\ IdleDates
    /\ IdleCount
    /\ IdleExcl
    /\ IdleAgg
    /\ IdleClass
    /\ IdleBatch
    /\ IdleYear
    /\ IdleRows
    /\ IdleUpdate
    /\ IdlePaging
    /\ IdleDiff
    /\ twin_text \in TwinTexts
    /\ twin = NoCounts

\* BCRequirementsCounter.count_requirements(text)['total']
CountRequirementsTotal ==
    /\ twin.bc_class = Unset
    /\ twin' = [twin EXCEPT !.bc_class = bc_count_requirements_total(twin_text)]
    /\ UNCHANGED twin_text

\* generate_webapp_data.count_bc(text)
CountBCFunction ==
    /\ twin.bc_class # Unset
    /\ twin.bc_fn = Unset
    /\ twin' = [twin EXCEPT !.bc_fn = count_bc(twin_text)]
    /\ UNCHANGED twin_text

\* RegDataRestrictionsCounter.count_restrictions(text)['total']
CountRestrictionsTotal ==
    /\ twin.bc_fn # Unset
    /\ twin.regdata_class = Unset
    /\ twin' = [twin EXCEPT !.regdata_class = count_restrictions_total(twin_text)]
    /\ UNCHANGED twin_text

\* generate_webapp_data.count_regdata(text)
CountRegDataFunction ==
    /\ twin.regdata_class # Unset
    /\ twin.regdata_fn = Unset
    /\ twin' = [twin EXCEPT !.regdata_fn = count_regdata(twin_text)]
    /\ UNCHANGED twin_text

\* the blanks that stand alone between two words
SingleBlanks(t) ==
    { i \in 2..(Len(t) - 1) : t[i] = " " /\ IsWord(t[i - 1]) /\ IsWord(t[i + 1]) }

\* the same document with other whitespace: one such blank becomes a line
\* break or two blanks, and the counts so far are kept to compare with
Respace ==
    /\ twin.regdata_fn # Unset
    /\ twin.before = << >>
    /\ \E i \in SingleBlanks(twin_text), gap \in {<<"\n">>, <<" ", " ">>} :
          twin_text' = SubSeq(twin_text, 1, i - 1) \o gap
                         \o SubSeq(twin_text, i + 1, Len(twin_text))
    /\ twin' = [NoCounts EXCEPT !.before = <<[twin EXCEPT !.before = << >>]>>]

OtherThanTwin == <<dateVars, countVars, exclVars, aggVars, classVars, batchVars, yearVars, rowsVars, updateVars, pagingVars, diffVars>>

NextTwin ==
    \/ CountRequirementsTotal /\ UNCHANGED OtherThanTwin
    \/ CountBCFunction /\ UNCHANGED OtherThanTwin
    \/ CountRestrictionsTotal /\ UNCHANGED OtherThanTwin
    \/ CountRegDataFunction /\ UNCHANGED OtherThanTwin
    \/ Respace /\ UNCHANGED OtherThanTwin

SpecTwin == InitTwin /\ [][NextTwin]_vars

(***************************************************************************)
(* Date resolution: properties                                             *)
(***************************************************************************)
Checked == phase = "checked" /\ doc # << >>

\* the first date of a list of candidates, NoDate when there is none
RECURSIVE ChainFirst(_)
ChainFirst(cands) ==
    IF cands = << >> THEN NoDate
    ELSE IF Head(cands) # NoDate THEN Head(cands)
    ELSE ChainFirst(Tail(cands))

YearStart(y) == IF y = 0 THEN NoDate ELSE <<y, 1, 1>>

RegisterYearStart(id) == IF HasYearMatch(id) THEN <<MatchedYear(id), 1, 1>> ELSE NoDate

\* commenced on or before cd, and not repealed on or before cd
InForceWindow(c, r, cd) ==
    /\ c # NoDate
    /\ DateLE(c, cd)
    /\ (r = NoDate \/ DateLT(cd, r))

\* C1: is_in_force_at(doc, d) is true iff the effective commencement is <= d
\* and there is no repeal date or the repeal date is > d: a document
\* commencing on d is in force, a document repealed on d is not.  Both
\* is_in_force_at functions, each with the commencement it resolves.
C1_InForceWindow ==
    Checked =>
        /\ verdict.tsa = InForceWindow(ResolveCommencement(doc[1]),
                                       parse_date(doc[1].repeal_date), check_date)
        /\ verdict.split = InForceWindow(ResolveCommencementSplit(docSplit[1]),
                                         parse_date(docSplit[1].repeal_date), check_date)
        /\ (parse_date(doc[1].repeal_date) = check_date => ~verdict.tsa /\ ~verdict.split)
        /\ (/\ ResolveCommencement(doc[1]) = check_date
            /\ parse_date(doc[1].repeal_date) = NoDate) => verdict.tsa

\* a document repealed exactly on the reference date, after it commenced
C1_Witness ==
    /\ Checked
    /\ parse_date(doc[1].repeal_date) = check_date
    /\ ResolveCommencement(doc[1]) # NoDate
    /\ DateLT(ResolveCommencement(doc[1]), check_date)
    /\ ~verdict.tsa
    /\ ~verdict.split

\* the chain as claimed: InForce start, commencement_date field, making_date,
\* 1 January of the register_id year
ClaimedChain(it, d) ==
    ChainFirst(<< parse_date(HistoryStart(it.statusHistory, "InForce", NoneStr)),
                  parse_date(d.commencement_date),
                  parse_date(it.makingDate),
                  RegisterYearStart(it.id) >>)

\* C3 as stated: the commencement either in-force test uses is the first
\* available of InForce start, commencement_date, making_date, 1 January of
\* the register_id year.
C3_Original ==
    (phase # "new" /\ doc # << >>) =>
        /\ ResolveCommencement(doc[1]) = ClaimedChain(item, doc[1])
        /\ ResolveCommencementSplit(docSplit[1]) = ClaimedChain(item, docSplit[1])

\* the chain of time_series_analysis: the year field of the API record comes
\* before the register_id year
ChainWithYearField(it, d) ==
    ChainFirst(<< parse_date(HistoryStart(it.statusHistory, "InForce", NoneStr)),
                  parse_date(d.commencement_date),
                  parse_date(it.makingDate),
                  YearStart(it.year),
                  RegisterYearStart(it.id) >>)

\* the chain of time_series_split_analysis: the stored commencement_date (the
\* InForce start when it is non-empty, else makingDate), then the register_id year
ChainSplit(it) ==
    LET start == HistoryStart(it.statusHistory, "InForce", NoneStr)
    IN  ChainFirst(<< parse_date(IF start.fmt \in {"none", "empty"}
                                 THEN it.makingDate ELSE start),
                      RegisterYearStart(it.id) >>)

\* C3 (amended): in time_series_analysis the commencement is the first
\* available of InForce start, commencement_date, making_date, 1 January of
\* the year field, 1 January of the register_id year; in
\* time_series_split_analysis it is the stored commencement_date (InForce
\* start if non-empty, else makingDate), else 1 January of the register_id year.
C3_Chain ==
    (phase # "new" /\ doc # << >>) =>
        /\ ResolveCommencement(doc[1]) = ChainWithYearField(item, doc[1])
        /\ ResolveCommencementSplit(docSplit[1]) = ChainSplit(item)

\* the year field decides: no usable date string, a year field that differs
\* from the register_id year, and the verdict follows the year field
C3_Witness ==
    /\ Checked
    /\ parse_date(doc[1].commencement_date) = NoDate
    /\ parse_date(doc[1].making_date) = NoDate
    /\ doc[1].year = YearMax
    /\ HasYearMatch(doc[1].register_id)
    /\ MatchedYear(doc[1].register_id) = YearMin
    /\ check_date = <<YearMin, 7, 1>>
    /\ ~verdict.tsa
    /\ verdict.split

HasRepealedEntry(it) ==
    \E i \in 1..Len(it.statusHistory) : it.statusHistory[i].status = "Repealed"

\* C4: a document with no Repealed status entry and no repeal_date is in
\* force at every reference date on or after its commencement, whatever its
\* is_in_force flag.
C4_RepealNeverInferred ==
    (Checked /\ ~HasRepealedEntry(item) /\ Falsy(doc[1].repeal_date)) =>
        /\ (/\ ResolveCommencement(doc[1]) # NoDate
            /\ DateLE(ResolveCommencement(doc[1]), check_date)) => verdict.tsa
        /\ (/\ ResolveCommencementSplit(docSplit[1]) # NoDate
            /\ DateLE(ResolveCommencementSplit(docSplit[1]), check_date)) => verdict.split

\* flagged not in force, no repeal information, and found in force
C4_Witness ==
    /\ Checked
    /\ ~HasRepealedEntry(item)
    /\ Falsy(doc[1].repeal_date)
    /\ ~doc[1].is_in_force
    /\ verdict.tsa
    /\ verdict.split

NoDateString(d) ==
    /\ parse_date(d.commencement_date) = NoDate
    /\ parse_date(d.making_date) = NoDate
    /\ ~HasYearMatch(d.register_id)

NoTestKeeps ==
    ~verdict.tsa /\ ~verdict.split /\ ~verdict.mandala /\ ~verdict.primary

\* C5 as stated: no usable commencement_date, no making_date and no year in
\* the register_id: every in-force test leaves the document out.
C5_Original == (Checked /\ NoDateString(doc[1])) => NoTestKeeps

\* C5 (amended): no usable commencement_date, no making_date, no year field
\* and no year in the register_id: every in-force test returns false (the
\* year-proxy pipelines skip the document) at every reference date.
C5_Unresolvable ==
    (Checked /\ NoDateString(doc[1]) /\ doc[1].year = 0) => NoTestKeeps

C5_Witness ==
    /\ Checked
    /\ NoDateString(doc[1])
    /\ doc[1].year = 0
    /\ doc[1].commencement_date = BadStr
    /\ check_date = <<YearMax, 7, 1>>
    /\ NoTestKeeps

(***************************************************************************)
(* Requirement counters: properties                                        *)
(***************************************************************************)
\* atom i is a whole word `word` of the text as written (any letter case)
IsWholeWord(t, word, i) ==
    /\ LowerAtom(t[i]) = word
    /\ (i > 1 => t[i - 1] \in SpaceAtoms \cup PunctAtoms)
    /\ (i < Len(t) => t[i + 1] \in SpaceAtoms \cup PunctAtoms)

\* atom i is the first word of a bigram `<word> not`: whitespace only, and at
\* least one, up to a whole word 'not'
IsNegatedAt(t, i) ==
    \E j \in (i + 2)..Len(t) :
        /\ \A k \in (i + 1)..(j - 1) : t[k] \in SpaceAtoms
        /\ IsWholeWord(t, "not", j)

\* whole-word occurrences of must, shall and required that do not start a
\* 'must not' / 'shall not' bigram
AffirmativeOccurrences(t) ==
    { i \in 1..Len(t) :
        \/ IsWholeWord(t, "required", i)
        \/ /\ IsWholeWord(t, "must", i) \/ IsWholeWord(t, "shall", i)
           /\ ~IsNegatedAt(t, i) }

\* C6: the BC count is the number of whole-word 'must', 'shall', 'required'
\* that are not the first word of a 'must not' / 'shall not' bigram, in the
\* two mask-then-count counters and in the count-then-subtract counter.
C6_NegationMasking ==
    /\ counts.bc_webapp # Unset =>
          counts.bc_webapp = Cardinality(AffirmativeOccurrences(text))
    /\ counts.bc_tsa # Unset =>
          counts.bc_tsa = Cardinality(AffirmativeOccurrences(text))
    /\ counts.bc_primary # Unset =>
          counts.bc_primary = Cardinality(AffirmativeOccurrences(text))

\* a text with a negated and an affirmative occurrence, counted 1 by all three
C6_Witness ==
    /\ \E i \in 1..Len(text) : IsWholeWord(text, "must", i) /\ IsNegatedAt(text, i)
    /\ \E i \in 1..Len(text) : IsWholeWord(text, "shall", i) /\ ~IsNegatedAt(text, i)
    /\ counts.bc_webapp = 1
    /\ counts.bc_tsa = 1
    /\ counts.bc_primary = 1

WholeWords(t, word) == { i \in 1..Len(t) : IsWholeWord(t, word, i) }

\* C7: the RegData counts of 'must' and 'shall' are the numbers of their
\* whole-word occurrences, those followed by 'not' included (the counter
\* class per word; count_regdata in its total).
C7_RegDataKeepsNegations ==
    /\ (counts.regdata_total # Unset /\ text # << >>) =>
          /\ counts.regdata_by_word["must"] = Cardinality(WholeWords(text, "must"))
          /\ counts.regdata_by_word["shall"] = Cardinality(WholeWords(text, "shall"))
    /\ counts.regdata_webapp # Unset =>
          counts.regdata_webapp >= Cardinality(WholeWords(text, "must"))
                                     + Cardinality(WholeWords(text, "shall"))

\* 'must not ...': must is counted once by RegData and not at all by BC
C7_Witness ==
    /\ Len(text) >= 3
    /\ IsWholeWord(text, "must", 1)
    /\ IsNegatedAt(text, 1)
    /\ Cardinality(WholeWords(text, "must")) = 1
    /\ counts.regdata_total # Unset
    /\ counts.regdata_by_word["must"] = 1
    /\ counts.regdata_webapp = 1
    /\ counts.bc_webapp = 0

\* 'may' at atom i followed by whitespace and a whole word 'not'
MayNotSpaced(t) ==
    { i \in 1..Len(t) : IsWholeWord(t, "may", i) /\ IsNegatedAt(t, i) }

\* the string 'may not' itself: one blank between the two words
MayNotLiteral(t) ==
    { i \in 1..Len(t) :
        /\ IsWholeWord(t, "may", i)
        /\ i + 2 <= Len(t)
        /\ t[i + 1] = " "
        /\ IsWholeWord(t, "not", i + 2) }

SingleWordTotal(t) ==
    Cardinality(WholeWords(t, "shall")) + Cardinality(WholeWords(t, "must"))
      + Cardinality(WholeWords(t, "required")) + Cardinality(WholeWords(t, "prohibited"))

ListedPhrases ==
    { <<"c","i","v","i","l"," ","a","v","i","a","t","i","o","n"," ","s","a","f","e","t","y">>,
      <<"a","i","r","w","o","r","t","h","i","n","e","s","s">>,
      <<"a","v","i","a","t","i","o","n"," ","t","r","a","n","s","p","o","r","t"," ","s","e","c","u","r","i","t","y">>,
      <<"a","i","r","s","p","a","c","e">>,
      <<"a","i","r","c","r","a","f","t"," ","n","o","i","s","e">>,
      <<"a","i","r"," ","n","a","v","i","g","a","t","i","o","n">>,
      <<"m","a","n","u","a","l"," ","o","f"," ","s","t","a","n","d","a","r","d","s"," ","p","a","r","t">>,
      <<"t","a","r","i","f","f"," ","c","o","n","c","e","s","s","i","o","n">> }

\* other orders the ten aviation rules could be tested in
OtherRuleOrders ==
    { <<10, 9, 8, 7, 6, 5, 4, 3, 2, 1>>,
      <<4, 3, 2, 1, 10, 9, 8, 7, 6, 5>>,
      <<2, 1, 4, 3, 6, 5, 8, 7, 10, 9>>,
      <<6, 7, 8, 9, 10, 1, 2, 3, 4, 5>> }

\* C9: should_exclude is the OR of is_civil_aviation_exclusive and
\* is_tariff_concession; it depends on the title only (not on the
\* collection) and not on the order the rules are tested in; every title
\* beginning with 'AD/' or 'CAO ' or containing a listed phrase is excluded.
C9_ExclusionIsOr ==
    filter.done =>
        /\ filter.excluded = (filter.aviation \/ filter.tariff)
        /\ filter.excluded = (filter.tariff \/ filter.aviation)
        /\ \A c \in Collections :
              should_exclude([subject EXCEPT !.collection = c]) = filter.excluded
        /\ \A order \in OtherRuleOrders :
              (AviationCascade(subject.title, order, 1) # 0) = filter.aviation
        /\ (\/ StartsWith(subject.title, <<"A","D","/">>)
            \/ StartsWith(subject.title, <<"C","A","O"," ">>)
            \/ \E ph \in ListedPhrases : Contains(Lower(subject.title), ph))
              => filter.excluded

\* an Act titled 'AD/Airworthiness' is excluded
C9_Witness ==
    /\ filter.done
    /\ subject.title = <<"A","D","/","A","i","r","w","o","r","t","h","i","n","e","s","s">>
    /\ subject.collection = <<"a","c","t">>
    /\ filter.aviation
    /\ ~filter.tariff
    /\ filter.excluded

UpperChar(c) ==
    IF \E i \in 1..26 : LowerChars[i] = c
    THEN UpperChars[CHOOSE i \in 1..26 : LowerChars[i] = c]
    ELSE c

\* str.upper()
Upper(s) == [i \in 1..Len(s) |-> UpperChar(s[i])]

\* C10: the exclusion outcome and the tag of a title are the same for every
\* letter-casing of it (here: as written, all lower case, all upper case).
C10_CaseInsensitive ==
    (filter.done /\ filter.tag # Unset) =>
        \A t \in {Lower(subject.title), Upper(subject.title)} :
            /\ should_exclude([subject EXCEPT !.title = t]) = filter.excluded
            /\ subtype_exclusion_tag([subject EXCEPT !.title = t]) = filter.tag

(***************************************************************************)
(* Aggregation: properties                                                 *)
(***************************************************************************)
\* the effective commencement of a corpus document
DocCommencement(d) ==
    ChainFirst(<< parse_date(d.commencement_date), parse_date(d.making_date),
                  YearStart(d.year), RegisterYearStart(d.register_id) >>)

\* C2: in every pipeline a document enters the aggregate of the reference
\* date iff it is not excluded, its effective commencement is <= the
\* reference date and it is not repealed on or before the reference date.
C2_ContributesIff ==
    ndocs > 0 =>
        last[1].contributed =
            (/\ ~should_exclude(last[1].doc)
             /\ InForceWindow(DocCommencement(last[1].doc),
                              parse_date(last[1].doc.repeal_date), ref))

(***************************************************************************)
(* Classification: properties                                              *)
(***************************************************************************)
TypeFns == {"get_type", "get_legislation_type", "get_legislation_type_simple",
            "get_legislation_type_split"}

Called(fns) == call # << >> /\ call[1].fn \in fns /\ call[1].result # "pending"

\* C11: in every module that assigns a legislation type the result is
\* Primary iff the collection (the empty string when it is missing) equals
\* 'act' ignoring letter case, Secondary otherwise, whatever the other fields.
C11_TypeIffAct ==
    Called(TypeFns) =>
        /\ call[1].result \in {"Primary", "Secondary", "primary", "secondary"}
        /\ (call[1].result \in {"Primary", "primary"})
              = (Lower(Get(call[1].doc, "collection")) = <<"a","c","t">>)

\* the named categories and the generic keywords with the title phrases
\* that select them (all of the phrases, or any of them), in the claimed order
NamedCategories ==
    << [label |-> "Tariff Concession Order", all |-> TRUE,
         phrases |-> {<<"t","a","r","i","f","f"," ","c","o","n","c","e","s","s","i","o","n">>}],
       [label |-> "Statement of Principles (RMA)", all |-> TRUE,
         phrases |-> {<<"s","t","a","t","e","m","e","n","t"," ","o","f"," ","p","r","i","n","c","i","p","l","e","s">>}],
       [label |-> "Licence Area Plan", all |-> TRUE,
         phrases |-> {<<"l","i","c","e","n","c","e"," ","a","r","e","a"," ","p","l","a","n">>}],
       [label |-> "Native Title", all |-> TRUE,
         phrases |-> {<<"n","a","t","i","v","e"," ","t","i","t","l","e">>}],
       [label |-> "Superannuation Family Law", all |-> TRUE,
         phrases |-> {<<"s","u","p","e","r","a","n","n","u","a","t","i","o","n">>, <<"f","a","m","i","l","y"," ","l","a","w">>}],
       [label |-> "Biosecurity", all |-> TRUE,
         phrases |-> {<<"b","i","o","s","e","c","u","r","i","t","y">>}],
       [label |-> "Therapeutic Goods", all |-> TRUE,
         phrases |-> {<<"t","h","e","r","a","p","e","u","t","i","c"," ","g","o","o","d","s">>}],
       [label |-> "Export Control", all |-> TRUE,
         phrases |-> {<<"e","x","p","o","r","t"," ","c","o","n","t","r","o","l">>}] >>

GenericKeywords ==
    << [label |-> "Regulation", all |-> FALSE,
         phrases |-> {<<" ","r","e","g","u","l","a","t","i","o","n">>}],
       [label |-> "Determination", all |-> FALSE,
         phrases |-> {<<" ","d","e","t","e","r","m","i","n","a","t","i","o","n">>}],
       [label |-> "Order", all |-> FALSE,
         phrases |-> {<<" ","o","r","d","e","r">>}],
       [label |-> "Rules", all |-> FALSE,
         phrases |-> {<<" ","r","u","l","e","s">>}],
       [label |-> "Direction", all |-> FALSE,
         phrases |-> {<<" ","d","i","r","e","c","t","i","o","n">>}],
       [label |-> "Notice", all |-> FALSE,
         phrases |-> {<<" ","n","o","t","i","c","e">>}],
       [label |-> "Declaration", all |-> FALSE,
         phrases |-> {<<" ","d","e","c","l","a","r","a","t","i","o","n">>}],
       [label |-> "Standard", all |-> FALSE,
         phrases |-> {<<" ","s","t","a","n","d","a","r","d">>, <<"a","c","c","o","u","n","t","i","n","g"," ","s","t","a","n","d","a","r","d">>}],
       [label |-> "Exemption", all |-> FALSE,
         phrases |-> {<<"e","x","e","m","p","t","i","o","n">>}],
       [label |-> "Approval", all |-> FALSE,
         phrases |-> {<<"a","p","p","r","o","v","a","l">>}],
       [label |-> "Instrument", all |-> FALSE,
         phrases |-> {<<" ","i","n","s","t","r","u","m","e","n","t">>}],
       [label |-> "Proclamation", all |-> FALSE,
         phrases |-> {<<"p","r","o","c","l","a","m","a","t","i","o","n">>}] >>

PhraseRuleHolds(r, title_lower) ==
    IF r.all THEN \A ph \in r.phrases : Contains(title_lower, ph)
    ELSE \E ph \in r.phrases : Contains(title_lower, ph)

IsAct(d) == Lower(Get(d, "collection")) = <<"a","c","t">>

\* rule k of a list of rules: numbers 1..10 are the aviation tags, 0 is the
\* Act rule, the others index the two tables (11..18 named, 20..31 generic)
SubtypeRuleHolds(k, d, title_lower) ==
    IF k = 0 THEN IsAct(d)
    ELSE IF k <= 10 THEN AviationRule(k, Get(d, "title"))
    ELSE IF k <= 18 THEN PhraseRuleHolds(NamedCategories[k - 10], title_lower)
    ELSE PhraseRuleHolds(GenericKeywords[k - 19], title_lower)

SubtypeRuleLabel(k) ==
    IF k = 0 THEN "Act"
    ELSE IF k <= 10 THEN AviationLabels[k]
    ELSE IF k <= 18 THEN NamedCategories[k - 10].label
    ELSE GenericKeywords[k - 19].label

\* the result is the label of the first rule of `order` that holds, and
\* 'Other Instrument' when none holds and `fallback` is true
FirstMatchWins(order, d, result, fallback) ==
    \E title_lower \in { Lower(Get(d, "title")) } :
    \E holds \in { [i \in 1..Len(order) |-> SubtypeRuleHolds(order[i], d, title_lower)] } :
        /\ \A i \in 1..Len(order) :
              (holds[i] /\ \A j \in 1..(i - 1) : ~holds[j])
                 => result = SubtypeRuleLabel(order[i])
        /\ ((\A i \in 1..Len(order) : ~holds[i]) /\ fallback)
              => result = "Other Instrument"

ClaimedSubtypeOrder ==
    <<1, 2, 3, 4, 5, 6, 7, 8, 9, 10, 11, 12, 13, 14, 15, 16, 17, 18,
      20, 21, 22, 23, 24, 25, 26, 27, 28, 29, 30, 31>>

SubtypeOrderWithAct ==
    <<1, 2, 3, 4, 5, 6, 7, 8, 9, 10, 11, 12, 13, 14, 15, 16, 17, 18, 0,
      20, 21, 22, 23, 24, 25, 26, 27, 28, 29, 30, 31>>

\* C12 as stated: get_subtype returns the label of the first matching rule
\* in the order aviation tags, named categories, generic keywords, and
\* 'Other Instrument' when the collection is not Act and no rule matches.
C12_Original ==
    Called({"get_subtype"}) =>
        FirstMatchWins(ClaimedSubtypeOrder, call[1].doc, call[1].result,
                       ~IsAct(call[1].doc))

\* C12 (amended): get_subtype returns exactly one label, that of the first
\* matching rule in the order: the ten aviation tags, the eight named
\* categories, then 'Act' when the collection is 'act' ignoring case, then
\* the twelve generic keywords, and 'Other Instrument' when none matches.
C12_Cascade ==
    Called({"get_subtype"}) =>
        FirstMatchWins(SubtypeOrderWithAct, call[1].doc, call[1].result, TRUE)

\* 'Therapeutic Goods (Medical Devices) Regulations 2021', an instrument
C12_Witness ==
    /\ Called({"get_subtype"})
    /\ Get(call[1].doc, "title") = <<"T","h","e","r","a","p","e","u","t","i","c"," ","G","o","o","d","s"," ","(","M","e","d","i","c","a","l"," ","D","e","v","i","c","e","s",")">>
                                     \o <<" ","R","e","g","u","l","a","t","i","o","n","s"," ","2","0","2","1">>
    /\ ~IsAct(call[1].doc)
    /\ SubtypeRuleHolds(20, call[1].doc, Lower(Get(call[1].doc, "title")))
    /\ call[1].result = "Therapeutic Goods"

IndustryFns == {"classify", "classify_mandala", "classify_primary_industry"}

\* the score as claimed: 10 x the division's keyword matches in the title
\* plus its keyword matches in the first n atoms of the text
ClaimedScore(code, d, n) ==
    10 * Findall(Get(d, "title"), ANZSIC_KEYWORDS(code), 1)
      + Findall(Slice(Get(d, "text"), 0, n), ANZSIC_KEYWORDS(code), 1)

SomeDivisionScores(d, n) == \E code \in ANZSIC_CODES : ClaimedScore(code, d, n) > 0

\* C13: with one window for every classifier, when a division scores above
\* zero the classifier returns a division whose score 10 x title matches +
\* window matches is maximal.
C13_MaximalScore ==
    (Called(IndustryFns) /\ SomeDivisionScores(call[1].doc, WindowAtoms)) =>
        /\ call[1].result \in ANZSIC_CODES
        /\ \A code \in ANZSIC_CODES :
              ClaimedScore(code, call[1].doc, WindowAtoms)
                 <= ClaimedScore(call[1].result, call[1].doc, WindowAtoms)

\* the score a classifier gives a division: for classify, 10 x title matches
\* + window matches; for classify_primary_industry, its 'all_scores' entry
ScoreTable(fn, d) ==
    IF fn = "classify_primary_industry" THEN primary_scores(NewClassifier, d)
    ELSE [code \in ANZSIC_CODES |-> ClaimedScore(code, d, WindowAtoms)]

\* a division that is not in the table scores 0
ScoreIn(table, code) == IF code \in DOMAIN table THEN table[code] ELSE 0

ClassifierScore(fn, code, d) == ScoreIn(ScoreTable(fn, d), code)

PositionOf(code) == CHOOSE i \in 1..Len(ANZSIC_ORDER) : ANZSIC_ORDER[i] = code

\* C14: when divisions tie on the maximal score, the classifier returns the
\* one that comes first in the declaration order O, Q, K, D, I, J, A, B, C,
\* P, E, R, F, G, H, L, M, N, S.
C14_FirstInOrder ==
    (Called(IndustryFns) /\ call[1].result \in ANZSIC_CODES) =>
        \E table \in {ScoreTable(call[1].fn, call[1].doc)} :
            \A code \in ANZSIC_CODES \ {call[1].result} :
                ScoreIn(table, code) = ScoreIn(table, call[1].result)
                   => PositionOf(call[1].result) < PositionOf(code)

\* the title 'gas': D (Electricity, Gas, Water) and B (Mining) tie on 10
C14_Witness ==
    /\ Called({"classify"})
    /\ call[1].doc.title = <<"gas">>
    /\ call[1].doc.text = << >>
    /\ ClassifierScore("classify", "D", call[1].doc) = 10
    /\ ClassifierScore("classify", "B", call[1].doc) = 10
    /\ call[1].result = "D"

\* some keyword of kws matches in t as a whole word, ignoring case
KeywordOccurs(t, kws) ==
    \E i \in 1..Len(t) : \E k \in 1..Len(kws) : KeywordEnd(t, kws[k], i) # 0

\* the text window of a classifier
ClassifierWindow(fn, d) ==
    Slice(Get(d, "text"), 0,
          IF fn = "classify_primary_industry" THEN PrimaryWindowAtoms ELSE WindowAtoms)

\* title + ' ' + text window
CombinedWindow(fn, d) == Get(d, "title") \o <<" ">> \o ClassifierWindow(fn, d)

SomeDivisionScoresIn(fn, d) ==
    \E table \in {ScoreTable(fn, d)} : \E code \in ANZSIC_CODES : ScoreIn(table, code) > 0

\* C15 as stated: the result is one of A..S, X, U; it is X iff no division
\* scores above zero and a cross-cutting keyword occurs in the title or in
\* the text window, and U iff no division scores and none occurs in either.
C15_Original ==
    Called(IndustryFns) =>
        LET fn == call[1].fn
            d == call[1].doc
            occurs == \/ KeywordOccurs(Get(d, "title"), CROSS_CUTTING_KEYWORDS)
                      \/ KeywordOccurs(ClassifierWindow(fn, d), CROSS_CUTTING_KEYWORDS)
        IN  \E scores \in {SomeDivisionScoresIn(fn, d)} :
            /\ call[1].result \in ANZSIC_CODES \cup {"X", "U"}
            /\ call[1].result = "X" <=> (~scores /\ occurs)
            /\ call[1].result = "U" <=> (~scores /\ ~occurs)

\* C15 (amended): the result is one of A..S, X, U; it is X iff no division
\* scores above zero and a cross-cutting keyword matches in the string
\* title + ' ' + text window (so a keyword of two words may span the end of
\* the title and the start of the text), and U iff no division scores and
\* none matches there; a division that scores always wins.
C15_CombinedWindow ==
    Called(IndustryFns) =>
        LET fn == call[1].fn
            d == call[1].doc
            occurs == KeywordOccurs(CombinedWindow(fn, d), CROSS_CUTTING_KEYWORDS)
        IN  \E scores \in {SomeDivisionScoresIn(fn, d)} :
            /\ call[1].result \in ANZSIC_CODES \cup {"X", "U"}
            /\ call[1].result = "X" <=> (~scores /\ occurs)
            /\ call[1].result = "U" <=> (~scores /\ ~occurs)
            /\ scores => call[1].result \in ANZSIC_CODES

\* the title 'income' over the text 'tax': 'income tax' is in neither, and
\* matches in the combined string
C15_Witness ==
    /\ Called({"classify"})
    /\ call[1].doc.title = <<"income">>
    /\ call[1].doc.text = <<"tax">>
    /\ ~KeywordOccurs(call[1].doc.title, CROSS_CUTTING_KEYWORDS)
    /\ ~KeywordOccurs(ClassifierWindow("classify", call[1].doc), CROSS_CUTTING_KEYWORDS)
    /\ call[1].result = "X"

AllClassFns == TypeFns \cup {"get_subtype"} \cup IndustryFns

\* C16: no classification call changes the classifier's patterns and
\* tables, and a document classified again (type, subtype or industry)
\* gets the result of the first time, whatever calls ran in between.
C16_Pure ==
    /\ classifier = NewClassifier
    /\ (/\ Called(AllClassFns)
        /\ kept # << >>
        /\ call[1].fn = kept[1].fn
        /\ call[1].doc = kept[1].doc) => call[1].result = kept[1].result

\* 'gas mine' classified, then calls on other documents, then
\* 'gas mine' classified again
C16_Witness ==
    /\ Called({"classify"})
    /\ kept # << >>
    /\ call[1].between
    /\ call[1].fn = kept[1].fn
    /\ call[1].doc = kept[1].doc
    /\ call[1].doc.title = <<"gas", " ", "mine">>
    /\ call[1].result = kept[1].result

(***************************************************************************)
(* Batch runs: properties                                                  *)
(***************************************************************************)
Ran(scripts) == job # << >> /\ job.script \in scripts /\ results # << >>

\* C17: the aggregate of a list for a reference date (document count, BC
\* total and RegData total of every group) is the same for the list in any
\* order.
C17_OrderIndependent ==
    Ran({"mandala", "tsa", "primary"}) => results = baseline

\* the list in the other order, with two Acts of different counts in the
\* aggregate
C17_Witness ==
    /\ Ran({"mandala"})
    /\ input # documents
    /\ input[1].text # input[Len(input)].text
    /\ results[1]["primary"].count = 2
    /\ results[1]["primary"].bc = count_bc(input[1].text) + count_bc(input[2].text)
    /\ count_bc(input[1].text) # count_bc(input[2].text)
    /\ results = baseline

\* the rows of a process_documents result, as a set
RowSet(r) == { r.rows[i] : i \in 1..Len(r.rows) }

\* C18: a second run on the same list with the same parameters gives the
\* rows and totals of the first: the same aggregate for the mandala script,
\* the same set of rows for process_documents.
C18_Rederivable ==
    /\ (Ran({"mandala"}) /\ input = documents) => results = baseline
    /\ Ran({"webapp"}) =>
          /\ results[1].raised = baseline[1].raised
          /\ RowSet(results[1]) = RowSet(baseline[1])

CounterScripts == {"bc_counter", "regdata_counter"}

WellFormed(r) == r.mapping /\ r.nulls = {}

NumberOf(docs, P(_)) == Cardinality({ i \in 1..Len(docs) : P(docs[i]) })

\* C19: whatever malformed records the list holds, no exception leaves the
\* loop and every well-formed record is analysed (a row or an analysis for
\* each, missing fields read as empty).
C19_BadRecordTolerated ==
    /\ Ran(CounterScripts \cup {"webapp"}) => ~results[1].raised
    /\ Ran(CounterScripts) =>
          results[1].regulations_analyzed >= NumberOf(input, WellFormed)

\* a mapping whose text is the empty string or is not there
NoText(r) == r.mapping /\ PyGet(r, "text", << >>) = << >>

\* C20: a record whose text is empty or missing is analysed like any other
\* and counted as a regulation, with a total of 0, by both counters.
C20_EmptyTextCountsZero ==
    (Ran(CounterScripts) /\ ~results[1].raised) =>
        LET by_regulation == results[1].by_regulation
            empty == { i \in 1..Len(by_regulation) : by_regulation[i].text_length = 0 }
        IN  /\ Cardinality(empty) = NumberOf(input, NoText)
            /\ \A i \in empty : by_regulation[i].total = 0
            /\ results[1].regulations_analyzed = Len(by_regulation)
            /\ results[1].regulations_analyzed >= NumberOf(input, NoText)

\* a record without text and one with an empty text in one batch
C20_Witness ==
    /\ Ran({"bc_counter"})
    /\ ~results[1].raised
    /\ Len(input) = 2
    /\ \E i \in 1..2 : input[i].mapping /\ "text" \notin DOMAIN input[i].fields
                                        /\ "text" \notin input[i].nulls
    /\ \E i \in 1..2 : input[i].mapping /\ "text" \in DOMAIN input[i].fields
                                        /\ input[i].fields.text = << >>
    /\ results[1].regulations_analyzed = 2
    /\ results[1].total = 0

(***************************************************************************)
(* Year extraction: properties                                             *)
(***************************************************************************)
\* the id is a C or an F, four digits, a letter and digits
IsRegisterForm(id) ==
    /\ Len(id) >= 7
    /\ id[1] \in {"C", "F"}
    /\ \A k \in 2..5 : IsDigit(id[k])
    /\ \E u \in 1..26 : UpperChars[u] = id[6]
    /\ \A k \in 7..Len(id) : IsDigit(id[k])

FourDigits(id) ==
    DigitVal(id[2]) * 1000 + DigitVal(id[3]) * 100 + DigitVal(id[4]) * 10 + DigitVal(id[5])

YearFns == {"webapp", "mandala", "primary", "classifier"}

\* C21: every year-extraction function returns the four digits of an id of
\* the form C|F, four digits, a letter, digits, and returns no year only
\* when the id holds no C or F followed by four digits.
C21_YearTolerant ==
    \A fn \in YearFns :
        yearOf # << >> /\ yearOf[fn] # Unset =>
            /\ IsRegisterForm(idGiven) => yearOf[fn] = FourDigits(idGiven)
            /\ yearOf[fn] = 0 => ~HasYearMatch(idGiven)

(***************************************************************************)
(* Time series rows: properties                                            *)
(***************************************************************************)
BaseFields ==
    {"making_year", "register_id", "title", "type", "subtype", "anzsic_code",
     "bc_requirements", "regdata_requirements"}

\* a time-series row without the two keys the function adds
BasePart(r) == [k \in DOMAIN r \ {"as_of_year", "as_of_date"} |-> r[k]]

Occurrences(seq, x) == Cardinality({ i \in 1..Len(seq) : seq[i] = x })

\* the years any row or span can name
RowYears == (YearMin - 1)..(YearMax + 1)

\* register ids of the rows emitted for as_of_year y
PresentAt(rows, y) == { rows[i].register_id : i \in { j \in 1..Len(rows) : rows[j].as_of_year = y } }

\* C22: for every base row exactly one row for each as_of_year from
\* max(making_year, start_year) through end_year and none for another year;
\* each row carries the base row's fields unchanged; the base rows are not
\* modified; the documents present at a year are present at every later
\* year of the series.
C22_OneRowPerYear ==
    /\ [](time_series_rows # << >> =>
            LET out == time_series_rows[1]
            IN  /\ \A i \in 1..Len(base_rows) : \A y \in RowYears :
                      Occurrences(out, ts_row(base_rows[i], y))
                        = IF /\ Max(base_rows[i].making_year, span.start_year) <= y
                             /\ y <= span.end_year
                          THEN Occurrences(base_rows, base_rows[i]) ELSE 0
                /\ \A j \in 1..Len(out) :
                      /\ DOMAIN out[j] = BaseFields \cup {"as_of_year", "as_of_date"}
                      /\ \E i \in 1..Len(base_rows) : BasePart(out[j]) = base_rows[i]
                      /\ out[j].as_of_year \in RowYears
                /\ \A y \in RowYears, z \in RowYears :
                      (y < z /\ z <= span.end_year) => PresentAt(out, y) \subseteq PresentAt(out, z))
    /\ [][base_rows' = base_rows]_vars

\* an Act of the first year and an instrument of the last, a series that
\* starts after the first year: the Act has a row for every year of the
\* series, the instrument for the last only
C22_Witness ==
    /\ time_series_rows # << >>
    /\ Len(base_rows) = 2
    /\ base_rows[1].making_year = YearMin
    /\ base_rows[2].making_year = YearMax
    /\ span = [start_year |-> YearMin + 1, end_year |-> YearMax]
    /\ Len(time_series_rows[1]) = (YearMax - YearMin) + 1

(***************************************************************************)
(* Scheduled update: properties                                            *)
(***************************************************************************)
\* C23: the marker exists only after a run that fetched both collections,
\* updated the metadata files and regenerated the combined JSON without any
\* exception; a run that fails at any step writes no marker and returns 1;
\* once the marker exists a run returns 0 without a request or a write.
C23_MarkerIsCompletion ==
    /\ marker # "absent" => clean
    /\ (upd.pc = "returned" /\ upd.code = 1) =>
          "api_update_complete.json" \notin upd.written
    /\ (upd.pc = "returned" /\ upd.marker_at_start) =>
          upd.code = 0 /\ upd.requests = 0 /\ upd.written = {}

(***************************************************************************)
(* Paging loop: properties                                                 *)
(***************************************************************************)
\* C24: on return every item of every page (every principal item, where the
\* function keeps principal titles only) is in the result exactly once and
\* in page order, whatever passes raised and were repeated on the way.
C24_EveryItemOnce ==
    (paging # << >> /\ paging.pc = "returned") =>
        paging.all_items = AppendItems(server.fn, server.titles, 1, Len(server.titles), << >>)

(***************************************************************************)
(* Subtype tags and exclusion filter: properties                           *)
(***************************************************************************)
\* C25: is_civil_aviation_exclusive(doc) is true iff get_subtype(doc) is one
\* of the ten 'Aviation - ...' labels (tags 1..10), and should_exclude(doc)
\* is true iff get_subtype(doc) is an 'Aviation - ...' label or 'Tariff
\* Concession Order' (tag 11), whatever the collection of the document.
C25_TagsAgreeWithFilter ==
    (filter # << >> /\ filter.done /\ filter.tag # Unset) =>
        /\ filter.aviation <=> filter.tag \in 1..10
        /\ filter.excluded <=> filter.tag \in 1..11

\* an Act titled 'Tariff Concession...': tagged Tariff Concession Order and
\* excluded, not aviation
C25_Witness ==
    /\ filter # << >>
    /\ filter.done
    /\ filter.tag = 11
    /\ filter.excluded
    /\ ~filter.aviation
    /\ Lower(subject.collection) = <<"a","c","t">>

(***************************************************************************)
(* The two methods side by side: properties                                *)
(***************************************************************************)
\* whole-word occurrences of `word` that start a bigram `<word> not`
NegatedWords(t, word) == { i \in WholeWords(t, word) : IsNegatedAt(t, i) }

\* the prohibitions of a text: 'must not', 'shall not', 'prohibited' and the
\* string 'may not'
Prohibitions(t) ==
    Cardinality(NegatedWords(t, "must")) + Cardinality(NegatedWords(t, "shall"))
      + Cardinality(WholeWords(t, "prohibited")) + Cardinality(MayNotLiteral(t))

C27_ClassTotalIsCountBC ==
    (twin.bc_class # Unset /\ twin.bc_fn # Unset) => twin.bc_class = twin.bc_fn

\* C28: RegDataRestrictionsCounter.count_restrictions(text)['total'] equals
\* count_regdata(text), and neither count changes when the single blank
\* between two words becomes a line break or several blanks.
C28_ClassTotalIsCountRegData ==
    /\ (twin.regdata_class # Unset /\ twin.regdata_fn # Unset) =>
          twin.regdata_class = twin.regdata_fn
    /\ (twin.before # << >> /\ twin.regdata_fn # Unset) =>
          /\ twin.regdata_class = twin.before[1].regdata_class
          /\ twin.regdata_fn = twin.before[1].regdata_fn

(***************************************************************************)
(* analyze_regulations: properties                                         *)
(***************************************************************************)
CounterRun ==
    /\ job # << >>
    /\ job.script \in {"bc_counter", "regdata_counter"}
    /\ results # << >>
    /\ ~results[1].raised

\* the try block of the loop raises for this record: in analyze_regulation,
\* or at the by_department lookup
RaisesInLoop(counter, reg) ==
    \/ analyze_regulation(counter, reg).raised
    \/ PyGet(reg, "department", Unknown) = AList

RECURSIVE SumTotals(_)
SumTotals(entries) ==
    IF entries = << >> THEN 0 ELSE Head(entries).total + SumTotals(Tail(entries))

Aggregates(r) ==
    [total |-> r.total, regulations_analyzed |-> r.regulations_analyzed,
     by_regulation |-> r.by_regulation, by_department |-> r.by_department,
     by_word |-> r.by_word]

\* C29: after analyze_regulations, regulations_analyzed = len(by_regulation)
\* <= total_regulations; the total is the sum of the per-regulation totals,
\* of the by_word values and of the by_department counts; the by_department
\* regulation counts add up to regulations_analyzed; the records for which
\* the loop raised left the aggregates as they are without them; and each
\* regulation's total is the sum of its own per-word counts.
C29_AggregatesAgree ==
    CounterRun =>
        \E r \in {results[1]} :
            /\ r.regulations_analyzed = Len(r.by_regulation)
            /\ r.regulations_analyzed <= r.total_regulations
            /\ r.total = SumTotals(r.by_regulation)
            /\ r.total = SumOver(r.by_word, DOMAIN r.by_word)
            /\ r.total = SumOver([d \in DOMAIN r.by_department |-> r.by_department[d].count],
                                 DOMAIN r.by_department)
            /\ r.regulations_analyzed =
                  SumOver([d \in DOMAIN r.by_department |-> r.by_department[d].regulations],
                          DOMAIN r.by_department)
            /\ Aggregates(r) =
                  Aggregates(analyze_regulations(job.script,
                      SelectSeq(input, LAMBDA reg : ~RaisesInLoop(job.script, reg))))
            /\ \A i \in 1..Len(r.by_regulation) :
                  r.by_regulation[i].total =
                      SumOver(r.by_regulation[i].by_word, DOMAIN r.by_regulation[i].by_word)

(***************************************************************************)
(* Status histories with several entries: properties                       *)
(***************************************************************************)
\* the positions of the entries of a status, and the last of them
EntriesOf(h, status) == { i \in 1..Len(h) : h[i].status = status }
LastOf(h, status) == CHOOSE i \in EntriesOf(h, status) : \A j \in EntriesOf(h, status) : j <= i

\* the entries that have taken effect by a date
StartedBy(h, cd) ==
    { i \in 1..Len(h) : parse_date(h[i].start) # NoDate /\ DateLE(parse_date(h[i].start), cd) }

\* the status history has the document in force at a date: of the entries
\* started by then, the one that started last (the later in the list when
\* two start on one day) is an InForce entry
HistoryInForceAt(h, cd) ==
    \E i \in StartedBy(h, cd) :
        /\ h[i].status = "InForce"
        /\ \A j \in StartedBy(h, cd) :
              \/ DateLT(parse_date(h[j].start), parse_date(h[i].start))
              \/ parse_date(h[j].start) = parse_date(h[i].start) /\ j <= i

\* C30: the commencement date is the start of the last InForce entry and the
\* repeal date the start of the last Repealed entry of the list, each
\* whatever the other is; and the document is in force at every reference
\* date at which its status history has it in force.
C30_HistoryDecidesInForce ==
    Checked =>
        \E h \in {item.statusHistory} :
            /\ (EntriesOf(h, "InForce") # {} /\ ~Falsy(h[LastOf(h, "InForce")].start)) =>
                  doc[1].commencement_date = h[LastOf(h, "InForce")].start
            /\ EntriesOf(h, "Repealed") # {} =>
                  doc[1].repeal_date = h[LastOf(h, "Repealed")].start
            /\ HistoryInForceAt(h, check_date) => verdict.tsa

====
